---- MODULE Spec2Model ----
(***************************************************************************)
(* Evicta: the cache decision engine (app/core/cache.py), its entry store  *)
(* (app/core/cache_store.py) and the rule-based intent extractor           *)
(* (app/intent/rule_intent.py).                                            *)
(*                                                                         *)
(* Text is modelled at character level: a string is a sequence of          *)
(* one-character strings.  Four characters that have no one-character TLA+ *)
(* literal are written by name: "TAB", "NL", "NBSP" (U+00A0, whitespace)   *)
(* and "ZWSP" (U+200B, Unicode category Cf).                               *)
(* Times are whole clock ticks; confidences are hundredths (0.7 is 70).    *)
(***************************************************************************)
EXTENDS Integers, Sequences, FiniteSets, TLC

----------------------------------------------------------------------------
(* Bounds of the model *)

\* cache_store.MAX_CACHE_SIZE is 10 (cache_store.py:31; probe_cache.py:192
\* expects 3); the model runs the same code at the capacities 1..MaxCapacity.
MaxCapacity == 2

\* uuid4().hex[:8] ranges over 2^32 ids; the model draws from 1..MaxIds.
MaxIds == 3

\* time.time() is capped: the clock stops advancing at MaxTime.
MaxTime == 2

\* ttl_seconds is drawn from 1..MaxTTL.
MaxTTL == 1

\* the strings clean is applied to have at most MaxLen characters.
MaxLen == 4

\* the phrases that are compared have at most MaxWords words.
MaxWords == 2

----------------------------------------------------------------------------
(* Characters and strings *)

LowerOf ==
  ("A" :> "a") @@ ("B" :> "b") @@ ("C" :> "c") @@ ("D" :> "d") @@ ("E" :> "e") @@ ("F" :> "f") @@ ("G" :> "g") @@ ("H" :> "h") @@ ("I" :> "i") @@ ("J" :> "j") @@ ("K" :> "k") @@ ("L" :> "l") @@ ("M" :> "m") @@ ("N" :> "n") @@ ("O" :> "o") @@ ("P" :> "p") @@ ("Q" :> "q") @@ ("R" :> "r") @@ ("S" :> "s") @@ ("T" :> "t") @@ ("U" :> "u") @@ ("V" :> "v") @@ ("W" :> "w") @@ ("X" :> "x") @@ ("Y" :> "y") @@ ("Z" :> "z")

LowerLetters == {"a","b","c","d","e","f","g","h","i","j","k","l","m","n","o","p","q","r","s","t","u","v","w","x","y","z"}

UpperLetters == {"A","B","C","D","E","F","G","H","I","J","K","L","M","N","O","P","Q","R","S","T","U","V","W","X","Y","Z"}

Digits == {"0","1","2","3","4","5","6","7","8","9"}

\* str.split() and \s: Unicode whitespace
Whitespace == {" ", "TAB", "NL", "NBSP"}

\* unicodedata.category(ch) == "Cf"
FormatChars == {"ZWSP"}

\* \w of the re module on str patterns
IsWordChar(c) == c \in LowerLetters \cup UpperLetters \cup Digits \cup {"_"}

IsSpace(c) == c \in Whitespace

SP == <<" ">>

StartsWith(t, k) == Len(t) >= Len(k) /\ SubSeq(t, 1, Len(k)) = k

EndsWith(t, k) == Len(t) >= Len(k) /\ SubSeq(t, Len(t) - Len(k) + 1, Len(t)) = k

Drop(t, n) == SubSeq(t, n + 1, Len(t))

\* "".join(ch for ch in prompt if unicodedata.category(ch) != "Cf")
RemoveFormat(s) == SelectSeq(s, LAMBDA c : c \notin FormatChars)

\* str.lower()
LowerStr(s) == [i \in 1..Len(s) |-> IF s[i] \in DOMAIN LowerOf THEN LowerOf[s[i]] ELSE s[i]]

\* length of the longest prefix of s without whitespace
RECURSIVE WordLen(_)
WordLen(s) ==
  IF s = <<>> \/ IsSpace(Head(s)) THEN 0 ELSE 1 + WordLen(Tail(s))

\* str.split(): the maximal runs of non-whitespace characters, in order
RECURSIVE Split(_)
Split(s) ==
  IF s = <<>> THEN <<>>
  ELSE IF IsSpace(Head(s)) THEN Split(Tail(s))
  ELSE LET n == WordLen(s) IN <<SubSeq(s, 1, n)>> \o Split(Drop(s, n))

\* " ".join(words)
RECURSIVE JoinSp(_)
JoinSp(words) ==
  IF words = <<>> THEN <<>>
  ELSE IF Len(words) = 1 THEN words[1]
  ELSE words[1] \o SP \o JoinSp(Tail(words))

\* str.strip()
RECURSIVE LStrip(_)
LStrip(s) == IF s # <<>> /\ IsSpace(Head(s)) THEN LStrip(Tail(s)) ELSE s

RECURSIVE RStrip(_)
RStrip(s) ==
  IF s # <<>> /\ IsSpace(s[Len(s)]) THEN RStrip(SubSeq(s, 1, Len(s) - 1)) ELSE s

Strip(s) == RStrip(LStrip(s))

\* clean that removes the format characters last
clean_FormatLast(prompt) == RemoveFormat(JoinSp(Split(LowerStr(prompt))))

\* clean without .lower()
clean_KeepCase(prompt) == JoinSp(Split(RemoveFormat(prompt)))

clean(prompt) == JoinSp(Split(LowerStr(RemoveFormat(prompt))))

----------------------------------------------------------------------------
(* Intent extraction: app/intent/rule_intent.py                            *)
(*                                                                         *)
(* The patterns are matched on normalized text, the form clean() returns   *)
(* and both callers pass (cache.py:56,87 and cache.py:167,200): lower      *)
(* case, no newline, words separated by exactly one space.  On such text   *)
(* \s+ matches one space and "." matches every character.                  *)

DefineKw ==
  << <<"w","h","a","t"," ","i","s">>,
     <<"w","h","a","t","'","s">>,
     <<"d","e","f","i","n","e">>,
     <<"m","e","a","n","i","n","g"," ","o","f">> >>

ExplainKw ==
  << <<"e","x","p","l","a","i","n">> >>

DifferenceKw ==
  << <<"d","i","f","f","e","r","e","n","c","e"," ","b","e","t","w","e","e","n">>,
     <<"c","o","m","p","a","r","e">> >>

PairConnectors ==
  << <<"a","n","d">>,
     <<"v","s">>,
     <<"v","e","r","s","u","s">> >>

HowToKw ==
  << <<"h","o","w"," ","t","o">>,
     <<"s","t","e","p","s"," ","t","o">>,
     <<"g","u","i","d","e"," ","t","o">>,
     <<"p","r","o","c","e","d","u","r","e"," ","t","o">> >>

TroubleKw ==
  << <<"e","r","r","o","r">>,
     <<"n","o","t"," ","w","o","r","k","i","n","g">>,
     <<"f","a","i","l","e","d">>,
     <<"e","x","c","e","p","t","i","o","n">>,
     <<"i","s","s","u","e">>,
     <<"p","r","o","b","l","e","m">> >>

WriteCodeKw ==
  << <<"w","r","i","t","e"," ","c","o","d","e">>,
     <<"w","r","i","t","e">>,
     <<"i","m","p","l","e","m","e","n","t">> >>

DebugKw ==
  << <<"t","r","a","c","e","b","a","c","k">>,
     <<"s","t","a","c","k"," ","t","r","a","c","e">>,
     <<"s","e","g","f","a","u","l","t">>,
     <<"p","a","n","i","c">>,
     <<"e","x","c","e","p","t","i","o","n">> >>

CreativeVerbs ==
  << <<"w","r","i","t","e">>,
     <<"c","r","e","a","t","e">> >>

CreativeNouns ==
  << <<"s","t","o","r","y">>,
     <<"p","o","e","m">>,
     <<"c","a","p","t","i","o","n">>,
     <<"l","y","r","i","c","s">>,
     <<"d","i","a","l","o","g","u","e">> >>

FindKw ==
  << <<"f","i","n","d">>,
     <<"s","e","a","r","c","h">>,
     <<"l","i","n","k">>,
     <<"r","e","s","o","u","r","c","e">>,
     <<"c","o","u","r","s","e">> >>

InstallKw ==
  << <<"i","n","s","t","a","l","l">>,
     <<"s","e","t","u","p">>,
     <<"c","o","n","f","i","g","u","r","e">>,
     <<"d","o","w","n","l","o","a","d">> >>

ToolKw ==
  << <<"w","h","i","c","h">>,
     <<"b","e","s","t">>,
     <<"b","e","t","t","e","r">>,
     <<"r","e","c","o","m","m","e","n","d">>,
     <<"s","u","g","g","e","s","t">> >>

SummarizeKw ==
  << <<"s","u","m","m","a","r","i","z","e">>,
     <<"r","e","w","r","i","t","e">>,
     <<"p","a","r","a","p","h","r","a","s","e">>,
     <<"s","h","o","r","t","e","n">>,
     <<"s","i","m","p","l","i","f","y">>,
     <<"t","r","a","n","s","l","a","t","e">> >>

S_in == <<" ","i","n"," ">>

S_about == <<" ","a","b","o","u","t"," ">>

S_for == <<"f","o","r"," ">>

S_a == <<"a"," ">>

NoMatch == [ok |-> FALSE, subject |-> <<>>, a |-> <<>>, b |-> <<>>, context |-> <<>>]

\* the least i in 1..n with P(i), or 0: ordered alternation, first rule wins
FirstWhere(n, P(_)) ==
  IF \E i \in 1..n : P(i)
  THEN CHOOSE i \in 1..n : P(i) /\ \A j \in 1..(i - 1) : ~P(j)
  ELSE 0

\* ^(k1|k2|...)\s+(?P<subject>.+)$
MatchPrefix(kws, t) ==
  LET fits(i) == StartsWith(t, kws[i] \o SP) /\ Len(t) > Len(kws[i]) + 1
      i == FirstWhere(Len(kws), fits)
  IN IF i = 0 THEN NoMatch
     ELSE [NoMatch EXCEPT !.ok = TRUE, !.subject = Drop(t, Len(kws[i]) + 1)]

\* ^(k1|k2|...)\s+(for\s+)?(?P<subject>.+)$
MatchFind(kws, t) ==
  LET m == MatchPrefix(kws, t)
      r == m.subject
  IN IF m.ok /\ StartsWith(r, S_for) /\ Len(r) > Len(S_for)
     THEN [m EXCEPT !.subject = Drop(r, Len(S_for))]
     ELSE m

\* \s+(and|vs|versus)\s+(?P<b>.+)$ matched on r from position L + 1
PairTail(r, L, c) ==
  /\ StartsWith(Drop(r, L), SP \o PairConnectors[c] \o SP)
  /\ Len(r) > L + Len(PairConnectors[c]) + 2

\* ^(k1|k2)\s+(?P<a>.+?)\s+(and|vs|versus)\s+(?P<b>.+)$ : a is the shortest
MatchPair(kws, t) ==
  LET m == MatchPrefix(kws, t)
      r == m.subject
      splits(L) == \E c \in 1..Len(PairConnectors) : PairTail(r, L, c)
      L == FirstWhere(Len(r), splits)
      c == FirstWhere(Len(PairConnectors), LAMBDA k : PairTail(r, L, k))
  IN IF ~m.ok \/ L = 0 THEN NoMatch
     ELSE [NoMatch EXCEPT !.ok = TRUE,
                          !.a = SubSeq(r, 1, L),
                          !.b = Drop(r, L + Len(PairConnectors[c]) + 2)]

\* ^(?P<subject>.+?)\s+(k1|k2|...)$ : subject is the shortest
MatchSuffix(kws, t) ==
  LET fits(L) == \E i \in 1..Len(kws) : Drop(t, L) = SP \o kws[i]
      L == FirstWhere(Len(t), fits)
  IN IF L = 0 THEN NoMatch
     ELSE [NoMatch EXCEPT !.ok = TRUE, !.subject = SubSeq(t, 1, L)]

\* ^(?P<subject>k1|k2|...)(?:\s+in\s+(?P<context>.+))?$
MatchDebug(kws, t) ==
  LET withContext(i) == StartsWith(t, kws[i] \o S_in) /\ Len(t) > Len(kws[i]) + Len(S_in)
      fits(i) == t = kws[i] \/ withContext(i)
      i == FirstWhere(Len(kws), fits)
  IN IF i = 0 THEN NoMatch
     ELSE [NoMatch EXCEPT !.ok = TRUE,
                          !.subject = kws[i],
                          !.context = IF withContext(i)
                                      THEN Drop(t, Len(kws[i]) + Len(S_in))
                                      ELSE <<>>]

\* (?P<subject>story|poem|...)(?:\s+about\s+(?P<context>.+))?$ matched on r
CreativeTail(r, j) ==
  /\ StartsWith(r, CreativeNouns[j])
  /\ LET rest == Drop(r, Len(CreativeNouns[j]))
     IN rest = <<>> \/ (StartsWith(rest, S_about) /\ Len(rest) > Len(S_about))

\* ^(write|create)\s+(a\s+)?(?P<subject>story|...)(?:\s+about\s+(?P<context>.+))?$
MatchCreative(verbs, t) ==
  LET m == MatchPrefix(verbs, t)
      r1 == m.subject
      tail(r) == \E j \in 1..Len(CreativeNouns) : CreativeTail(r, j)
      r2 == IF StartsWith(r1, S_a) /\ tail(Drop(r1, Len(S_a))) THEN Drop(r1, Len(S_a)) ELSE r1
      j == FirstWhere(Len(CreativeNouns), LAMBDA k : CreativeTail(r2, k))
      rest == Drop(r2, Len(CreativeNouns[j]))
  IN IF ~m.ok \/ ~tail(r2) THEN NoMatch
     ELSE [NoMatch EXCEPT !.ok = TRUE,
                          !.subject = CreativeNouns[j],
                          !.context = IF rest = <<>> THEN <<>> ELSE Drop(rest, Len(S_about))]

\* INTENT_PATTERNS in list order, a rule with two patterns as two rows;
\* len is len(pattern), the length of the pattern's text
INTENT_PATTERNS ==
  << [intent |-> "DefineConcept",      shape |-> "prefix",   kws |-> DefineKw,      len |-> 54],
     [intent |-> "ExplainConcept",     shape |-> "prefix",   kws |-> ExplainKw,     len |-> 29],
     [intent |-> "DifferenceBetween",  shape |-> "pair",     kws |-> DifferenceKw,  len |-> 73],
     [intent |-> "HowToGuide",         shape |-> "prefix",   kws |-> HowToKw,       len |-> 59],
     [intent |-> "TroubleshootIssue",  shape |-> "suffix",   kws |-> TroubleKw,     len |-> 71],
     [intent |-> "TroubleshootIssue",  shape |-> "prefix",   kws |-> TroubleKw,     len |-> 70],
     [intent |-> "WriteCode",          shape |-> "prefix",   kws |-> WriteCodeKw,   len |-> 48],
     [intent |-> "DebugError",         shape |-> "debug",    kws |-> DebugKw,       len |-> 89],
     [intent |-> "CreativeGeneration", shape |-> "creative", kws |-> CreativeVerbs, len |-> 104],
     [intent |-> "FindResource",       shape |-> "find",     kws |-> FindKw,        len |-> 63],
     [intent |-> "InstallSetup",       shape |-> "prefix",   kws |-> InstallKw,     len |-> 54],
     [intent |-> "ToolRecommendation", shape |-> "prefix",   kws |-> ToolKw,        len |-> 57],
     [intent |-> "SummarizeText",      shape |-> "prefix",   kws |-> SummarizeKw,   len |-> 77] >>

\* re.match(pattern, text)
Match(p, t) ==
  CASE p.shape = "prefix"   -> MatchPrefix(p.kws, t)
    [] p.shape = "pair"     -> MatchPair(p.kws, t)
    [] p.shape = "suffix"   -> MatchSuffix(p.kws, t)
    [] p.shape = "debug"    -> MatchDebug(p.kws, t)
    [] p.shape = "creative" -> MatchCreative(p.kws, t)
    [] p.shape = "find"     -> MatchFind(p.kws, t)

\* hundredths
INTENT_BASE_CONFIDENCE ==
  [DifferenceBetween |-> 95, InstallSetup |-> 90, HowToGuide |-> 88,
   DefineConcept |-> 85, ExplainConcept |-> 80, WriteCode |-> 85,
   DebugError |-> 90, TroubleshootIssue |-> 70, FindResource |-> 65,
   CreativeGeneration |-> 75, SummarizeText |-> 85]

NoiseDefineConcept ==
  << << <<"m","e","a","n","i","n","g">> >>,
     << <<"o","v","e","r","v","i","e","w">> >>,
     << <<"b","a","s","i","c","s">> >>,
     << <<"i","n"," ","s","i","m","p","l","e"," ","t","e","r","m","s">> >>,
     << <<"w","i","t","h"," ","e","x","a","m","p","l","e","s">>, <<"w","i","t","h"," ","e","x","a","m","p","l","e">> >> >>

NoiseExplainConcept ==
  << << <<"i","n"," ","s","i","m","p","l","e"," ","t","e","r","m","s">> >>,
     << <<"w","i","t","h"," ","e","x","a","m","p","l","e","s">>, <<"w","i","t","h"," ","e","x","a","m","p","l","e">> >> >>

NoiseSummarizeText ==
  << << <<"i","n"," ","s","i","m","p","l","e"," ","w","o","r","d","s">> >>,
     << <<"s","h","o","r","t">> >> >>

NoiseInstallSetup ==
  << << <<"o","n"," ","u","b","u","n","t","u">> >>,
     << <<"o","n"," ","l","i","n","u","x">> >>,
     << <<"o","n"," ","m","a","c","o","s">>, <<"o","n"," ","m","a","c">> >>,
     << <<"o","n"," ","w","i","n","d","o","w","s">> >> >>

GenericSubjects ==
  { <<"i","t">>,
     <<"t","h","i","s">>,
     <<"t","h","a","t">>,
     <<"s","o","m","e","t","h","i","n","g">>,
     <<"e","r","r","o","r">>,
     <<"i","s","s","u","e">> }

NOISE_PATTERNS ==
  [DefineConcept |-> NoiseDefineConcept, ExplainConcept |-> NoiseExplainConcept,
   SummarizeText |-> NoiseSummarizeText, InstallSetup |-> NoiseInstallSetup]

\* hundredths
NOISE_PENALTY == 5

\* a \b-delimited occurrence of the literal lit in s at position pos
NoiseAt(lit, s, pos) ==
  /\ StartsWith(Drop(s, pos - 1), lit)
  /\ (pos = 1 \/ ~IsWordChar(s[pos - 1]))
  /\ (pos + Len(lit) > Len(s) \/ ~IsWordChar(s[pos + Len(lit)]))

\* re.subn(pat, "", s) from position pos on: pat is a list of literals, the
\* longer first (an optional suffix is greedy); returns what is kept and the
\* number of occurrences removed
RECURSIVE Subn(_, _, _)
Subn(alts, s, pos) ==
  IF pos > Len(s) THEN [out |-> <<>>, count |-> 0]
  ELSE LET k == FirstWhere(Len(alts), LAMBDA i : NoiseAt(alts[i], s, pos))
       IN IF k = 0
          THEN LET r == Subn(alts, s, pos + 1)
               IN [out |-> <<s[pos]>> \o r.out, count |-> r.count]
          ELSE LET r == Subn(alts, s, pos + Len(alts[k]))
               IN [out |-> r.out, count |-> r.count + 1]

\* the loop of normalize_subject over patterns[k..]
RECURSIVE StripNoise(_, _, _, _)
StripNoise(patterns, k, subject, noise_removed) ==
  IF k > Len(patterns) THEN [subject |-> subject, noise_removed |-> noise_removed]
  ELSE LET r == Subn(patterns[k], subject, 1)
       IN IF r.count > 0
          THEN StripNoise(patterns, k + 1, r.out, TRUE)
          ELSE StripNoise(patterns, k + 1, subject, noise_removed)

normalize_subject(intent, subject) ==
  LET patterns == IF intent \in DOMAIN NOISE_PATTERNS THEN NOISE_PATTERNS[intent] ELSE <<>>
      r == StripNoise(patterns, 1, subject, FALSE)
  IN [subject |-> JoinSp(Split(r.subject)), noise_removed |-> r.noise_removed]

\* code points, ascending: the order sorted() compares strings by
CodePointOrder ==
  <<"TAB", "NL", " ", "'">> \o
  <<"0","1","2","3","4","5","6","7","8","9">> \o <<"?">> \o
  <<"A","B","C","D","E","F","G","H","I","J","K","L","M","N","O","P","Q","R","S","T","U","V","W","X","Y","Z">> \o
  <<"_">> \o
  <<"a","b","c","d","e","f","g","h","i","j","k","l","m","n","o","p","q","r","s","t","u","v","w","x","y","z">> \o
  <<"NBSP", "ZWSP">>

Ord(c) == CHOOSE i \in 1..Len(CodePointOrder) : CodePointOrder[i] = c

\* a <= b for str
RECURSIVE StrLeq(_, _)
StrLeq(a, b) ==
  IF a = <<>> THEN TRUE
  ELSE IF b = <<>> THEN FALSE
  ELSE IF Head(a) = Head(b) THEN StrLeq(Tail(a), Tail(b))
  ELSE Ord(Head(a)) < Ord(Head(b))

\* canonical_pair without sorted()
canonical_pair_Unsorted(a, b) == JoinSp(<<JoinSp(Split(a)), JoinSp(Split(b))>>)

canonical_pair(a, b) ==
  LET a1 == JoinSp(Split(a))
      b1 == JoinSp(Split(b))
  IN IF StrLeq(a1, b1) THEN JoinSp(<<a1, b1>>) ELSE JoinSp(<<b1, a1>>)

\* tenths
subject_specificity(subject) ==
  LET n == Len(Split(subject))
  IN IF subject \in GenericSubjects THEN 4
     ELSE IF 6 + n < 10 THEN 6 + n ELSE 10

\* tenths; pattern is len(pattern)
pattern_strength(pattern) ==
  IF pattern > 70 THEN 10 ELSE IF pattern > 40 THEN 9 ELSE 8

\* the scores (ten-thousandths) ending in exactly 50 whose binary64 value,
\* computed as compute_confidence computes it, lies above the decimal tie
\* (0.65 * 0.9, 0.85 * 0.9, 0.75 * 0.9000000000000001, and these less 0.05)
StoredAboveTie == {5350, 5850, 6750, 7650}

\* round(x, 2) of a score held in ten-thousandths, in hundredths.  A score
\* ending in exactly 50 is a tie only in decimal: round() sees the stored
\* binary64 value, which lies below the tie unless listed above (0.625, the
\* one exact tie, rounds to even: down).
Round2(v) ==
  LET q == v \div 100
      rem == v % 100
  IN IF rem > 50 \/ (rem = 50 /\ v \in StoredAboveTie) THEN q + 1 ELSE q

\* a fault: the noise penalty is not taken off
compute_confidence_NoPenalty(intent, subject, pattern, noise_removed) ==
  Round2((IF intent \in DOMAIN INTENT_BASE_CONFIDENCE THEN INTENT_BASE_CONFIDENCE[intent] ELSE 70)
           * subject_specificity(subject) * pattern_strength(pattern))

compute_confidence(intent, subject, pattern, noise_removed) ==
  LET base == IF intent \in DOMAIN INTENT_BASE_CONFIDENCE
              THEN INTENT_BASE_CONFIDENCE[intent] ELSE 70
      s1 == base * subject_specificity(subject) * pattern_strength(pattern)
      s2 == IF noise_removed THEN s1 - NOISE_PENALTY * 100 ELSE s1
      s3 == IF s2 > 10000 THEN 10000 ELSE IF s2 < 0 THEN 0 ELSE s2
  IN Round2(s3)

\* extract_intent returning None
NoIntent == [intent |-> "None", subject |-> <<>>, confidence |-> 0, source |-> "None"]

\* the subject assembled from the groups of the match
RawSubject(intent, g) ==
  CASE intent = "DifferenceBetween" -> canonical_pair(g.a, g.b)
    [] intent = "DebugError" ->
         IF g.context # <<>> THEN g.subject \o SP \o g.context ELSE g.subject
    [] intent = "CreativeGeneration" ->
         IF g.context # <<>> THEN g.subject \o S_about \o g.context ELSE g.subject
    [] OTHER -> g.subject

\* rule_intent.py:180-198: the result for the groups g of pattern p, the
\* subject normalized to n
IntentResult(p, n) ==
  [intent |-> p.intent,
   subject |-> n.subject,
   confidence |-> compute_confidence(p.intent, n.subject, p.len, n.noise_removed),
   source |-> "rule"]

ResultOfMatch(p, g) ==
  IntentResult(p, normalize_subject(p.intent, JoinSp(Split(RawSubject(p.intent, g)))))

\* rule_intent.py:145-200: the first pattern, in list order, that matches
ExtractFrom(text, i) ==
  IF i = 0 THEN NoIntent
  ELSE ResultOfMatch(INTENT_PATTERNS[i], Match(INTENT_PATTERNS[i], text))

FirstMatch(text) ==
  FirstWhere(Len(INTENT_PATTERNS), LAMBDA k : Match(INTENT_PATTERNS[k], text).ok)

ExtractFromText(text) == ExtractFrom(text, FirstMatch(text))

extract_intent(prompt) == ExtractFromText(Strip(LowerStr(prompt)))

----------------------------------------------------------------------------
(* The entry store: app/core/cache_store.py                                *)

\* Python's None where an entry id is expected; entry ids are 1..MaxIds
None == 0

\* Python's None where a response is expected
NoResponse == "None"

EntryIds == 1..MaxIds

\* dict.get(k), d[k] = v, and removal of the keys ks
Get(d, k) == IF k \in DOMAIN d THEN d[k] ELSE None

Put(d, k, v) == [x \in DOMAIN d \cup {k} |-> IF x = k THEN v ELSE d[x]]

Del(d, ks) == [x \in DOMAIN d \ ks |-> d[x]]

\* cache_entries is an OrderedDict: a sequence of entries with distinct ids,
\* the least recently used first
HasEntry(entries, entry_id) == \E i \in 1..Len(entries) : entries[i].id = entry_id

IndexOf(entries, entry_id) == CHOOSE i \in 1..Len(entries) : entries[i].id = entry_id

EntryOf(entries, entry_id) == entries[IndexOf(entries, entry_id)]

StoredIds(entries) == {entries[i].id : i \in 1..Len(entries)}

Without(entries, entry_id) == SelectSeq(entries, LAMBDA e : e.id # entry_id)

\* a step of a handler, skipped once an exception is raised
Then(S, F(_)) == IF S.raised # "" THEN S ELSE F(S)

Raise(S, exc) == [S EXCEPT !.raised = exc]

\* OrderedDict.move_to_end(entry_id)
mru_update(S, entry_id) ==
  IF ~HasEntry(S.cache_entries, entry_id) THEN Raise(S, "KeyError")
  ELSE [S EXCEPT !.cache_entries =
          Append(Without(@, entry_id), EntryOf(S.cache_entries, entry_id))]

\* entry_id is the value of uuid.uuid4().hex[:8]; t is time.time().
\* Assigning to a key the OrderedDict already has keeps the key's position.
create_entry(S, entry_id, response, ttl_seconds, t) ==
  LET entry == [id |-> entry_id, response |-> response, expires_at |-> t + ttl_seconds]
  IN [S EXCEPT
        !.cache_entries =
            IF HasEntry(@, entry_id)
            THEN [@ EXCEPT ![IndexOf(@, entry_id)] = entry]
            ELSE Append(@, entry),
        !.entry_id_to_prompts = Put(@, entry_id, {}),
        !.entry_id_to_intents = Put(@, entry_id, {})]

\* a fault: the reverse set is updated, the forward index is not
associate_prompt_to_entry_ReverseOnly(S, prompt, entry_id) ==
  IF entry_id \notin DOMAIN S.entry_id_to_prompts THEN Raise(S, "KeyError")
  ELSE [S EXCEPT !.entry_id_to_prompts[entry_id] = @ \cup {prompt}]

associate_prompt_to_entry(S, prompt, entry_id) ==
  LET old_entry_id == Get(S.prompt_to_entry_id, prompt)
      S1 == IF old_entry_id = None THEN S
            ELSE IF old_entry_id \notin DOMAIN S.entry_id_to_prompts
            THEN Raise(S, "KeyError")
            ELSE [S EXCEPT !.entry_id_to_prompts[old_entry_id] = @ \ {prompt}]
      S2 == [S1 EXCEPT !.prompt_to_entry_id = Put(@, prompt, entry_id)]
  IN IF S1.raised # "" THEN S1
     ELSE IF entry_id \notin DOMAIN S2.entry_id_to_prompts THEN Raise(S2, "KeyError")
     ELSE [S2 EXCEPT !.entry_id_to_prompts[entry_id] = @ \cup {prompt}]

associate_intent_to_entry(S, intent, entry_id) ==
  LET old_entry_id == Get(S.intent_to_entry_id, intent)
      S1 == IF old_entry_id = None THEN S
            ELSE IF old_entry_id \notin DOMAIN S.entry_id_to_intents
            THEN Raise(S, "KeyError")
            ELSE [S EXCEPT !.entry_id_to_intents[old_entry_id] = @ \ {intent}]
      S2 == [S1 EXCEPT !.intent_to_entry_id = Put(@, intent, entry_id)]
  IN IF S1.raised # "" THEN S1
     ELSE IF entry_id \notin DOMAIN S2.entry_id_to_intents THEN Raise(S2, "KeyError")
     ELSE [S2 EXCEPT !.entry_id_to_intents[entry_id] = @ \cup {intent}]

\* a fault: a stored prompt that is a prefix of the prompt looked up matches
get_entry_id_by_prompt_Prefix(S, prompt) ==
  IF \E q \in DOMAIN S.prompt_to_entry_id : StartsWith(prompt, q)
  THEN S.prompt_to_entry_id[CHOOSE q \in DOMAIN S.prompt_to_entry_id : StartsWith(prompt, q)]
  ELSE None

get_entry_id_by_prompt(S, prompt) == Get(S.prompt_to_entry_id, prompt)

\* dict.pop(key) of every key of a set: KeyError on a key the dict lacks.
\* PopNeverFails states that no reachable call meets such a key, so the order
\* in which the loop visits the set does not matter.
PopAll(S, field, keys) ==
  LET S1 == [S EXCEPT ![field] = Del(@, keys)]
  IN IF keys \subseteq DOMAIN S[field] THEN S1 ELSE Raise(S1, "KeyError")

\* a fault: the index maps are cleaned, the entry stays in cache_entries
evict_entry_KeepEntry(S, entry_id) ==
  LET prompts == IF entry_id \in DOMAIN S.entry_id_to_prompts
                 THEN S.entry_id_to_prompts[entry_id] ELSE {}
      intents == IF entry_id \in DOMAIN S.entry_id_to_intents
                 THEN S.entry_id_to_intents[entry_id] ELSE {}
      S1 == [S EXCEPT !.entry_id_to_prompts = Del(@, {entry_id})]
      S2 == PopAll(S1, "prompt_to_entry_id", prompts)
      S3 == Then(S2, LAMBDA X : [X EXCEPT !.entry_id_to_intents = Del(@, {entry_id})])
  IN Then(S3, LAMBDA X : PopAll(X, "intent_to_entry_id", intents))

evict_entry(S, entry_id) ==
  LET prompts == IF entry_id \in DOMAIN S.entry_id_to_prompts
                 THEN S.entry_id_to_prompts[entry_id] ELSE {}
      intents == IF entry_id \in DOMAIN S.entry_id_to_intents
                 THEN S.entry_id_to_intents[entry_id] ELSE {}
      S1 == [S EXCEPT !.cache_entries = Without(@, entry_id),
                      !.entry_id_to_prompts = Del(@, {entry_id})]
      S2 == PopAll(S1, "prompt_to_entry_id", prompts)
      S3 == Then(S2, LAMBDA X : [X EXCEPT !.entry_id_to_intents = Del(@, {entry_id})])
  IN Then(S3, LAMBDA X : PopAll(X, "intent_to_entry_id", intents))

----------------------------------------------------------------------------
(* The guardrail and the risk label: app/core/cache.py *)

\* should_try_intent without the digit test
should_try_intent_LengthOnly(prompt) == Len(prompt) <= 80

should_try_intent(prompt) ==
  /\ ~(Len(prompt) > 80)
  /\ ~(\E i \in 1..Len(prompt) : prompt[i] \in Digits)
  /\ ~(\E i \in 1..Len(prompt) : prompt[i] = "NL")

\* confidence in hundredths
\* classify_risk that tests ttl_remaining before confidence
classify_risk_TTLFirst(hit_type, confidence, ttl_remaining) ==
  IF hit_type = "exact" THEN "none"
  ELSE IF ttl_remaining < 10 THEN "medium"
  ELSE IF confidence < 60 THEN "high"
  ELSE "low"

classify_risk(hit_type, confidence, ttl_remaining) ==
  IF hit_type = "exact" THEN "none"
  ELSE IF confidence < 60 THEN "high"
  ELSE IF ttl_remaining < 10 THEN "medium"
  ELSE "low"

----------------------------------------------------------------------------
(* The prompts of the model *)

P_what_is_ai == <<"w","h","a","t"," ","i","s"," ","a","i">>

P_Define_AI == <<"D","e","f","i","n","e"," "," ","A","I">>

P_hello == <<"h","e","l","l","o">>

P_hello_q == <<"h","e","l","l","o","?">>

\* the prompts callers write, as typed: two phrasings of one intent and a
\* prompt no rule matches
RawPrompts == {P_what_is_ai, P_Define_AI, P_hello}

\* the prompts callers look up: those they write and one never written
ProbePrompts == RawPrompts \cup {P_hello_q}

\* probe_cache.py:62-68: "hello" as typed with other case and padding
P_HELLO_padded == <<" ","H","E","L","L","O"," ">>

\* probe_cache.py:114-121: "what is ai" as typed with capitals, a tab and a
\* trailing newline; and with a doubled space, a trailing no-break space and
\* a zero-width space
P_What_is_AI_tab == <<"W","h","a","t"," ","i","s","TAB","A","I","NL">>

P_what_is_AI_zwsp == <<"w","h","a","t"," "," ","i","s"," ","A","ZWSP","I","NBSP">>

\* the typings of "hello" and of "what is ai"
HelloVariants == {P_hello, P_HELLO_padded}

AiVariants == {P_what_is_ai, P_What_is_AI_tab, P_what_is_AI_zwsp}

VariantPrompts == HelloVariants \cup AiVariants

\* two phrasings of one intent about a subject with a digit
P_what_is_web3 == <<"w","h","a","t"," ","i","s"," ","w","e","b","3">>

P_define_web3 == <<"d","e","f","i","n","e"," ","w","e","b","3">>

\* two phrasings of one intent about a subject of 73 characters (ten words):
\* the first has 82 characters, the second 80
P_steps_to_long == <<"s","t","e","p","s"," ","t","o">> \o [i \in 1..74 |-> IF i % 8 = 1 THEN " " ELSE "a"]

P_how_to_long == <<"h","o","w"," ","t","o">> \o [i \in 1..74 |-> IF i % 8 = 1 THEN " " ELSE "a"]

GuardPrompts == {P_what_is_web3, P_define_web3, P_steps_to_long, P_how_to_long}

\* two prompts with and without a phrase normalize_subject strips, for two
\* intents
P_define_ai_simply ==
  <<"d","e","f","i","n","e"," ","a","i"," ","i","n"," ","s","i","m","p","l","e"," ","t","e","r","m","s">>

P_install_go == <<"i","n","s","t","a","l","l"," ","g","o">>

P_install_go_on_ubuntu ==
  <<"i","n","s","t","a","l","l"," ","g","o"," ","o","n"," ","u","b","u","n","t","u">>

NoisePrompts == {P_Define_AI, P_define_ai_simply, P_install_go, P_install_go_on_ubuntu}

\* every prompt of the model
ModelPrompts == ProbePrompts \cup VariantPrompts \cup GuardPrompts \cup NoisePrompts

\* clean, extract_intent and should_try_intent are pure: their values on the
\* prompts of the model are computed once, tabulated, and looked up by the
\* handlers
Table(keys, F(_)) ==
  LET T[ks \in SUBSET keys] ==
        IF ks = {} THEN <<>>
        ELSE LET k == CHOOSE x \in ks : TRUE
             IN (k :> F(k)) @@ T[ks \ {k}]
  IN T[keys]

clean_memo == Table(ModelPrompts, clean)

CleanPrompts == {clean_memo[raw] : raw \in ModelPrompts}

extract_intent_memo == Table(CleanPrompts, extract_intent)

should_try_intent_memo == Table(CleanPrompts, should_try_intent)

----------------------------------------------------------------------------
(* The decision engine and the write path: app/core/cache.py               *)

\* a fault: the confidence is part of the key
IntentKey_WithConfidence(result) == <<result.intent, result.subject, result.confidence>>

\* the key an IntentResult is stored and looked up under
IntentKey(result) == <<result.intent, result.subject>>

\* emit(event_type, payload): the events of a call, in order
Emit(S, event_type, entry_id, info) ==
  [S EXCEPT !.events = Append(@, [event |-> event_type, entry_id |-> entry_id, info |-> info])]

\* CacheDecision; confidence in hundredths
Decision(hit_type, entry_id, ttl_remaining, confidence) ==
  [hit_type |-> hit_type, entry_id |-> entry_id,
   ttl_remaining |-> ttl_remaining, confidence |-> confidence]

Miss == Decision("miss", None, 0, 0)

\* no decision: the call raised
NoDecision == Decision("raised", None, 0, 0)

\* cache.py:73-82 and 104-113: an expired entry is reported and evicted
ExpireEntry(S, entry_id) ==
  evict_entry(Emit(S, "CACHE_EXPIRE", entry_id, ""), entry_id)

\* a fault: the expiry of the entry is not looked at
ExactMatch_IgnoreExpiry(S, prompt, t) ==
  LET entry_id == get_entry_id_by_prompt(S, prompt)
  IN IF entry_id # None /\ HasEntry(S.cache_entries, entry_id)
     THEN [store |-> mru_update(S, entry_id), done |-> TRUE,
           decision |-> Decision("exact", entry_id,
                                 EntryOf(S.cache_entries, entry_id).expires_at - t, 100)]
     ELSE [store |-> S, done |-> FALSE, decision |-> Miss]

\* cache.py:59-82, "1. Exact match".  prompt is clean; done: the call returns
\* a fault: an exact hit renews the entry's expiry
ExactMatch_ExtendsTTL(S, prompt, t) ==
  LET entry_id == get_entry_id_by_prompt(S, prompt)
  IN IF entry_id # None /\ HasEntry(S.cache_entries, entry_id)
     THEN LET entry == EntryOf(S.cache_entries, entry_id)
          IN IF t <= entry.expires_at
             THEN [store |-> mru_update(
                               [S EXCEPT !.cache_entries[IndexOf(S.cache_entries, entry_id)].expires_at
                                           = t + 1],
                               entry_id),
                   done |-> TRUE,
                   decision |-> Decision("exact", entry_id, entry.expires_at - t, 100)]
             ELSE [store |-> ExpireEntry(S, entry_id), done |-> FALSE, decision |-> Miss]
     ELSE [store |-> S, done |-> FALSE, decision |-> Miss]

ExactMatch(S, prompt, t) ==
  LET entry_id == get_entry_id_by_prompt(S, prompt)
  IN IF entry_id # None /\ HasEntry(S.cache_entries, entry_id)
     THEN LET entry == EntryOf(S.cache_entries, entry_id)
          IN IF t <= entry.expires_at
             THEN [store |-> mru_update(S, entry_id), done |-> TRUE,
                   decision |-> Decision("exact", entry_id, entry.expires_at - t, 100)]
             ELSE [store |-> ExpireEntry(S, entry_id), done |-> FALSE, decision |-> Miss]
     ELSE [store |-> S, done |-> FALSE, decision |-> Miss]

\* a fault: an entry is taken to expire at expires_at, not after it
ReuseEntry_StrictExpiry(S, prompt, t, entry_id) ==
  IF entry_id # None /\ HasEntry(S.cache_entries, entry_id)
  THEN IF t < EntryOf(S.cache_entries, entry_id).expires_at
       THEN [store |-> Then(mru_update(S, entry_id),
                            LAMBDA X : associate_prompt_to_entry(X, prompt, entry_id)),
             done |-> TRUE,
             decision |-> Decision("intent", entry_id,
                                   EntryOf(S.cache_entries, entry_id).expires_at - t, 70)]
       ELSE [store |-> ExpireEntry(S, entry_id), done |-> FALSE, decision |-> Miss]
  ELSE [store |-> S, done |-> FALSE, decision |-> Miss]

\* cache.py:89-113: the entry the intent index names, if any.  The confidence
\* of an intent hit is the constant 0.7 of line 101
ReuseEntry(S, prompt, t, entry_id) ==
  IF entry_id # None /\ HasEntry(S.cache_entries, entry_id)
  THEN IF t <= EntryOf(S.cache_entries, entry_id).expires_at
       THEN [store |-> Then(mru_update(S, entry_id),
                            LAMBDA X : associate_prompt_to_entry(X, prompt, entry_id)),
             done |-> TRUE,
             decision |-> Decision("intent", entry_id,
                                   EntryOf(S.cache_entries, entry_id).expires_at - t, 70)]
       ELSE [store |-> ExpireEntry(S, entry_id), done |-> FALSE, decision |-> Miss]
  ELSE [store |-> S, done |-> FALSE, decision |-> Miss]

\* cache.py:86-88: tried is should_try_intent(prompt), intent_key is
\* extract_intent(prompt)
LookupIntent(S, prompt, t, tried, intent_key) ==
  IF tried /\ intent_key # NoIntent
  THEN ReuseEntry(S, prompt, t, Get(S.intent_to_entry_id, IntentKey(intent_key)))
  ELSE [store |-> S, done |-> FALSE, decision |-> Miss]

\* cache.py:85-113, "2. Intent reuse"
IntentReuse(S, prompt, t) ==
  LookupIntent(S, prompt, t, should_try_intent_memo[prompt], extract_intent_memo[prompt])

\* what decide_cache returns and the store it leaves; r is the outcome of the
\* last step taken
Returning(r) ==
  [store |-> r.store,
   decision |-> IF r.store.raised # "" THEN NoDecision ELSE r.decision]

\* cache.py:84-120: after the exact lookup r1
AfterExactMatch(r1, prompt, t) ==
  IF r1.done \/ r1.store.raised # "" THEN Returning(r1)
  ELSE Returning(IntentReuse(r1.store, prompt, t))

\* a fault: the intent index is consulted before the prompt index
DecideClean_IntentFirst(S, prompt, t) ==
  LET r == IntentReuse(S, prompt, t)
  IN IF r.done \/ r.store.raised # "" THEN Returning(r)
     ELSE Returning(ExactMatch(r.store, prompt, t))

\* decide_cache on the clean prompt
DecideClean(S, prompt, t) == AfterExactMatch(ExactMatch(S, prompt, t), prompt, t)

\* decide_cache(prompt) at time t: the store it leaves and what it returns
decide_cache(S, raw_prompt, t) == DecideClean(S, clean_memo[raw_prompt], t)

\* cache.py:129-148: r is what decide_cache returned
Respond(r) ==
  LET d == r.decision
      S1 == Then(r.store,
                 LAMBDA X : Emit(X, "CACHE_DECISION", d.entry_id,
                                 classify_risk(d.hit_type, d.confidence, d.ttl_remaining)))
  IN [store |-> S1,
      decision |-> d,
      value |-> IF d.hit_type \in {"miss", "raised"} THEN NoResponse
                ELSE IF HasEntry(S1.cache_entries, d.entry_id)
                THEN EntryOf(S1.cache_entries, d.entry_id).response
                ELSE NoResponse]

\* get_from_cache(prompt): the response of the entry decided on, or None
get_from_cache(S, raw_prompt, t) == Respond(decide_cache(S, raw_prompt, t))

\* a fault: the refreshed entry keeps its place in the recency order
RefreshEntry_NoTouch(S, entry_id, response, ttl_seconds, t) ==
  IF ~HasEntry(S.cache_entries, entry_id) THEN Raise(S, "KeyError")
  ELSE Emit([S EXCEPT !.cache_entries[IndexOf(S.cache_entries, entry_id)] =
                        [@ EXCEPT !.response = response, !.expires_at = t + ttl_seconds]],
            "CACHE_WRITE", entry_id, "update")

\* cache.py:169-184: the prompt already points to an entry
RefreshEntry(S, entry_id, response, ttl_seconds, t) ==
  IF ~HasEntry(S.cache_entries, entry_id) THEN Raise(S, "KeyError")
  ELSE Emit(mru_update(
              [S EXCEPT !.cache_entries[IndexOf(S.cache_entries, entry_id)] =
                           [@ EXCEPT !.response = response, !.expires_at = t + ttl_seconds]],
              entry_id),
            "CACHE_WRITE", entry_id, "update")

\* cache.py:199-202: register intent if it exists
RegisterKey(S, entry_id, tried, intent_key) ==
  IF intent_key # NoIntent /\ tried
  THEN associate_intent_to_entry(S, IntentKey(intent_key), entry_id)
  ELSE S

RegisterIntent(S, prompt, entry_id) ==
  RegisterKey(S, entry_id, should_try_intent_memo[prompt], extract_intent_memo[prompt])

\* cache.py:204-214: enforce capacity limitations
\* a fault: the entry at the recency tail, the newest one, is evicted
EnforceCapacity_EvictNewest(S) ==
  IF Len(S.cache_entries) > S.MAX_CACHE_SIZE
  THEN LET newest_entry_id == S.cache_entries[Len(S.cache_entries)].id
       IN evict_entry(Emit(S, "CACHE_EVICT", newest_entry_id, "capacity"), newest_entry_id)
  ELSE S

EnforceCapacity(S) ==
  IF Len(S.cache_entries) > S.MAX_CACHE_SIZE
  THEN LET oldest_entry_id == S.cache_entries[1].id
       IN evict_entry(Emit(S, "CACHE_EVICT", oldest_entry_id, "capacity"), oldest_entry_id)
  ELSE S

\* cache.py:186-214: the prompt points to no entry
CreateEntry(S, prompt, response, ttl_seconds, t, new_id) ==
  Then(Then(Then(Then(create_entry(S, new_id, response, ttl_seconds, t),
                      LAMBDA X : associate_prompt_to_entry(X, prompt, new_id)),
                 LAMBDA X : Emit(X, "CACHE_WRITE", new_id, "")),
            LAMBDA X : RegisterIntent(X, prompt, new_id)),
       EnforceCapacity)

\* set_in_cache on the clean prompt
SetClean(S, prompt, response, ttl_seconds, t, new_id) ==
  IF get_entry_id_by_prompt(S, prompt) # None
  THEN RefreshEntry(S, get_entry_id_by_prompt(S, prompt), response, ttl_seconds, t)
  ELSE CreateEntry(S, prompt, response, ttl_seconds, t, new_id)

\* set_in_cache(prompt, response, ttl_seconds) at time t; new_id is the id
\* uuid4 yields if an entry is created
set_in_cache(S, raw_prompt, response, ttl_seconds, t, new_id) ==
  SetClean(S, clean_memo[raw_prompt], response, ttl_seconds, t, new_id)

----------------------------------------------------------------------------
(* The state machine *)

\* the backend's answer to a prompt (main.py: answer = generate_response(prompt)):
\* one answer per prompt as typed
generate_response(raw) ==
  IF raw = P_what_is_ai THEN "answer: what is ai"
  ELSE IF raw = P_Define_AI THEN "answer: Define  AI"
  ELSE IF raw = P_hello THEN "answer: hello"
  ELSE IF raw = P_hello_q THEN "answer: hello?"
  ELSE IF raw = P_HELLO_padded THEN "answer:  HELLO "
  ELSE IF raw = P_What_is_AI_tab THEN "answer: What is<TAB>AI<NL>"
  ELSE IF raw = P_what_is_AI_zwsp THEN "answer: what  is A<ZWSP>I<NBSP>"
  ELSE IF raw = P_what_is_web3 THEN "answer: what is web3"
  ELSE IF raw = P_define_web3 THEN "answer: define web3"
  ELSE IF raw = P_steps_to_long THEN "answer: steps to aaa..."
  ELSE IF raw = P_how_to_long THEN "answer: how to aaa..."
  ELSE IF raw = P_define_ai_simply THEN "answer: define ai in simple terms"
  ELSE IF raw = P_install_go THEN "answer: install go"
  ELSE IF raw = P_install_go_on_ubuntu THEN "answer: install go on ubuntu"
  ELSE "answer"

TTLs == 1..MaxTTL

\* main.py:48: ask is a plain def, so the server runs each request in a
\* thread of its pool; two of them are modelled
Threads == {1, 2}

\* a thread with no request
IdleRequest ==
  [pc |-> "idle", op |-> "none", raw |-> <<>>, ttl |-> 0, now |-> 0, phase |-> "exact",
   entry_id |-> None]

\* no request has arrived: started counts the requests taken, issued holds
\* the ids uuid4 has given
NoRequests == [thread |-> [t \in Threads |-> IdleRequest], started |-> 0, issued |-> {}]

VARIABLES
  MAX_CACHE_SIZE,       \* cache_store.MAX_CACHE_SIZE, set before the first call
  cache_entries,        \* cache_store.cache_entries
  prompt_to_entry_id,   \* cache_store.prompt_to_entry_id
  entry_id_to_prompts,  \* cache_store.entry_id_to_prompts
  intent_to_entry_id,   \* cache_store.intent_to_entry_id
  entry_id_to_intents,  \* cache_store.entry_id_to_intents
  now,                  \* time.time()
  last,                 \* the last call: its arguments, what it returned, its events
  recency,              \* history: the stored ids, the least recently created,
                        \* refreshed or hit first
  via_intent,           \* history: the prompts an intent hit attached to the
                        \* entry they map to
  failed,               \* history: some call raised
  requests              \* the requests taken, and per thread the request it runs,
                        \* the statement it is at and its local variables

vars == <<MAX_CACHE_SIZE, cache_entries, prompt_to_entry_id, entry_id_to_prompts,
          intent_to_entry_id, entry_id_to_intents, now, last, recency, via_intent,
          failed, requests>>

\* the store as a value the handlers map to the store they leave
Store ==
  [MAX_CACHE_SIZE |-> MAX_CACHE_SIZE,
   cache_entries |-> cache_entries,
   prompt_to_entry_id |-> prompt_to_entry_id,
   entry_id_to_prompts |-> entry_id_to_prompts,
   intent_to_entry_id |-> intent_to_entry_id,
   entry_id_to_intents |-> entry_id_to_intents,
   raised |-> "",
   events |-> <<>>]

\* the module's globals take the values the handler left
Commit(S) ==
  /\ MAX_CACHE_SIZE' = S.MAX_CACHE_SIZE
  /\ cache_entries' = S.cache_entries
  /\ prompt_to_entry_id' = S.prompt_to_entry_id
  /\ entry_id_to_prompts' = S.entry_id_to_prompts
  /\ intent_to_entry_id' = S.intent_to_entry_id
  /\ entry_id_to_intents' = S.entry_id_to_intents

\* a call of the cache's interface at time t, as its caller and the event
\* sink saw it
Call(op, raw, prompt, response, t, decision, value, S) ==
  [op |-> op, raw |-> raw, prompt |-> prompt, response |-> response, t |-> t,
   decision |-> decision, value |-> value, raised |-> S.raised, events |-> S.events]

NoCall ==
  [op |-> "none", raw |-> <<>>, prompt |-> <<>>, response |-> NoResponse, t |-> 0,
   decision |-> Miss, value |-> NoResponse, raised |-> "", events |-> <<>>]

MoveToEnd(ids, entry_id) == Append(SelectSeq(ids, LAMBDA x : x # entry_id), entry_id)

\* the recency history after the events evs[k..] of a call
RECURSIVE Replay(_, _, _)
Replay(ids, evs, k) ==
  IF k > Len(evs) THEN ids
  ELSE LET ev == evs[k]
       IN Replay(IF ev.event = "CACHE_WRITE" THEN MoveToEnd(ids, ev.entry_id)
                 ELSE IF ev.event \in {"CACHE_EXPIRE", "CACHE_EVICT"}
                 THEN SelectSeq(ids, LAMBDA x : x # ev.entry_id)
                 ELSE ids,
                 evs, k + 1)

\* the histories after a call that left the store S with the decision d
Remember(S, prompt, d) ==
  /\ recency' = LET ids == Replay(recency, S.events, 1)
                IN IF d.hit_type \in {"exact", "intent"} THEN MoveToEnd(ids, d.entry_id) ELSE ids
  /\ via_intent' = {p \in via_intent \cup (IF d.hit_type = "intent" THEN {prompt} ELSE {}) :
                      /\ p \in DOMAIN S.prompt_to_entry_id
                      /\ \/ p = prompt /\ d.hit_type = "intent"
                         \/ Get(prompt_to_entry_id, p) = S.prompt_to_entry_id[p]}
  /\ failed' = (failed \/ S.raised # "")

Init ==
  /\ MAX_CACHE_SIZE \in 1..MaxCapacity
  /\ cache_entries = <<>>
  /\ prompt_to_entry_id = <<>>
  /\ entry_id_to_prompts = <<>>
  /\ intent_to_entry_id = <<>>
  /\ entry_id_to_intents = <<>>
  /\ now = 0
  /\ last = NoCall
  /\ recency = <<>>
  /\ via_intent = {}
  /\ failed = FALSE
  /\ requests = NoRequests

\* a call returns (or raises): the globals, the record of the call and the
\* histories
Return(op, raw, response, r) ==
  /\ Commit(r.store)
  /\ last' = Call(op, raw, clean_memo[raw], response, now, r.decision, r.value, r.store)
  /\ Remember(r.store, clean_memo[raw], r.decision)
  /\ UNCHANGED <<now, requests>>

Decided(r) == [store |-> r.store, decision |-> r.decision, value |-> NoResponse]

Written(S) == [store |-> S, decision |-> Miss, value |-> NoResponse]

DecideCache(prompts) ==
  \E raw \in prompts :
    Return("decide", raw, NoResponse, Decided(decide_cache(Store, raw, now)))

GetFromCache(prompts) ==
  \E raw \in prompts :
    Return("get", raw, NoResponse, get_from_cache(Store, raw, now))

\* the write that follows a miss: the backend's answer is stored.
\* new_id: uuid4 draws the id without looking at the store
SetInCache(prompts) ==
  \E raw \in prompts, ttl \in TTLs, new_id \in EntryIds :
    Return("set", raw, generate_response(raw),
           Written(set_in_cache(Store, raw, generate_response(raw), ttl, now, new_id)))

\* the clock advances between calls
Tick ==
  /\ now < MaxTime
  /\ now' = now + 1
  /\ UNCHANGED <<MAX_CACHE_SIZE, cache_entries, prompt_to_entry_id, entry_id_to_prompts,
                 intent_to_entry_id, entry_id_to_intents, last, recency, via_intent,
                 failed, requests>>

\* callers look up every prompt and write three of them, while time passes
Next ==
  \/ DecideCache(ProbePrompts)
  \/ GetFromCache(ProbePrompts)
  \/ SetInCache(RawPrompts)
  \/ Tick

Spec == Init /\ [][Next]_vars

\* callers look up and write every prompt, within one clock tick, at the
\* largest capacity
InitLRU == Init /\ MAX_CACHE_SIZE = MaxCapacity

NextLRU ==
  \/ DecideCache(ProbePrompts)
  \/ SetInCache(ProbePrompts)

SpecLRU == InitLRU /\ [][NextLRU]_vars

\* callers look up and write "hello" and "what is ai" in several typings,
\* while time passes
NextVariants ==
  \/ DecideCache(VariantPrompts)
  \/ GetFromCache(VariantPrompts)
  \/ SetInCache(VariantPrompts)
  \/ Tick

SpecVariants == Init /\ [][NextVariants]_vars

\* callers look up and write prompts that match an intent rule, three of
\* which the guardrail rejects, within one clock tick
NextGuard ==
  \/ DecideCache(GuardPrompts)
  \/ GetFromCache(GuardPrompts)
  \/ SetInCache(GuardPrompts)

SpecGuard == Init /\ [][NextGuard]_vars

\* callers look up and write prompts that differ by a phrase
\* normalize_subject strips, within one clock tick
NextNoise ==
  \/ DecideCache(NoisePrompts)
  \/ GetFromCache(NoisePrompts)
  \/ SetInCache(NoisePrompts)

SpecNoise == Init /\ [][NextNoise]_vars

\* cache_store.evict_entry(entry_id) called on its own, on any id
EvictEntry ==
  \E entry_id \in EntryIds :
    /\ Commit(evict_entry(Store, entry_id))
    /\ last' = Call("evict", <<>>, <<>>, NoResponse, now, [Miss EXCEPT !.entry_id = entry_id],
                    NoResponse, evict_entry(Store, entry_id))
    /\ recency' = SelectSeq(recency, LAMBDA x : x # entry_id)
    /\ via_intent' = via_intent \cap DOMAIN evict_entry(Store, entry_id).prompt_to_entry_id
    /\ failed' = (failed \/ evict_entry(Store, entry_id).raised # "")
    /\ UNCHANGED <<now, requests>>

\* callers write and look up prompts within one clock tick, and entries are
\* evicted by id
NextEvict ==
  \/ DecideCache(RawPrompts)
  \/ SetInCache(RawPrompts)
  \/ EvictEntry

SpecEvict == Init /\ [][NextEvict]_vars

\* probe_cache.reset_cache(): cache_store.cache_entries.clear(), the four
\* index maps are left as they are
ResetCache ==
  /\ cache_entries' = <<>>
  /\ last' = Call("reset", <<>>, <<>>, NoResponse, now, Miss, NoResponse, Store)
  /\ recency' = <<>>
  /\ UNCHANGED <<MAX_CACHE_SIZE, prompt_to_entry_id, entry_id_to_prompts, intent_to_entry_id,
                 entry_id_to_intents, now, via_intent, failed, requests>>

\* the probe's tests: writes and lookups within one clock tick, with a reset
\* between them
NextReset ==
  \/ DecideCache(RawPrompts)
  \/ GetFromCache(RawPrompts)
  \/ SetInCache(RawPrompts)
  \/ ResetCache

SpecReset == Init /\ [][NextReset]_vars

\* set_in_cache(prompt, response, ttl_seconds) called with any response and
\* any ttl_seconds >= 0: the backend need not give the same answer twice
Regenerated == "answer, regenerated"

WriteTTLs == 0..MaxTTL

SetInCacheWith(prompts, responses, ttls) ==
  \E raw \in prompts, response \in responses, ttl \in ttls, new_id \in EntryIds :
    Return("set", raw, response, Written(set_in_cache(Store, raw, response, ttl, now, new_id)))

\* callers write any answer with any lifetime and read it back, while time
\* passes
ReadBackPrompts == {P_what_is_ai, P_hello}

NextReadBack ==
  \/ DecideCache(ReadBackPrompts)
  \/ GetFromCache(ReadBackPrompts)
  \/ \E raw \in ReadBackPrompts :
       SetInCacheWith({raw}, {generate_response(raw), Regenerated}, WriteTTLs)
  \/ Tick

SpecReadBack == Init /\ [][NextReadBack]_vars

----------------------------------------------------------------------------
(* Requests that run at the same time *)

\* The handlers take no lock (no module of src/app/core imports threading),
\* so a thread may be switched between any two statements.  A step below is
\* one call of cache_store, or a run of statements of cache.py around one;
\* every interleaving of steps is an interleaving of the program.  uuid4
\* gives each entry an id no entry has had.

MaxRequests == 3

\* the thread t has run a step that left the store S and its locals r, and
\* drew the ids new_ids; the request ends when the step returned
\* (r.pc = "idle") or raised, and then d is what it returned
StepWith(t, S, r, d, new_ids) ==
  /\ Commit(S)
  /\ requests' = [requests EXCEPT
                    !.thread[t] = IF r.pc = "idle" \/ S.raised # "" THEN IdleRequest ELSE r,
                    !.issued = @ \cup new_ids]
  /\ last' = IF r.pc = "idle" \/ S.raised # ""
             THEN Call(r.op, r.raw, clean_memo[r.raw],
                       IF r.op = "set" THEN generate_response(r.raw) ELSE NoResponse,
                       now, IF S.raised # "" THEN NoDecision ELSE d, NoResponse, S)
             ELSE last
  /\ failed' = (failed \/ S.raised # "")
  /\ UNCHANGED <<now, recency, via_intent>>

Step(t, S, r, d) == StepWith(t, S, r, d, {})

\* main.py:48-74: a request arrives and the first free thread takes it (the
\* threads are alike).  cache.py:56-57 and 167: prompt = clean(prompt), and
\* decide_cache reads the clock
StartRequest(t) ==
  /\ requests.thread[t].pc = "idle"
  /\ \A u \in Threads : u < t => requests.thread[u].pc # "idle"
  /\ requests.started < MaxRequests
  /\ \E op \in {"decide", "set"}, raw \in RawPrompts :
       \E ttl \in IF op = "set" THEN TTLs ELSE {0} :
         requests' = [requests EXCEPT
                        !.thread[t] = [@ EXCEPT !.pc = "lookup", !.op = op, !.raw = raw,
                                                !.ttl = ttl,
                                                !.now = IF op = "decide" THEN now ELSE 0],
                        !.started = @ + 1]
  /\ UNCHANGED <<MAX_CACHE_SIZE, cache_entries, prompt_to_entry_id, entry_id_to_prompts,
                 intent_to_entry_id, entry_id_to_intents, now, last, recency, via_intent,
                 failed>>

\* cache.py:60-61 and 170-171: entry_id = get_entry_id_by_prompt(prompt)
Lookup(t) ==
  /\ requests.thread[t].pc = "lookup"
  /\ Step(t, Store,
          [requests.thread[t] EXCEPT
             !.entry_id = get_entry_id_by_prompt(Store, clean_memo[requests.thread[t].raw]),
             !.pc = IF get_entry_id_by_prompt(Store, clean_memo[requests.thread[t].raw]) # None
                    THEN IF requests.thread[t].op = "set" THEN "refresh" ELSE "check"
                    ELSE IF requests.thread[t].op = "set" THEN "create" ELSE "intent"],
          Miss)

\* cache.py:62-64, 73-82 in the exact phase and 91-93, 104-120 in the intent
\* phase: entry = cache_entries.get(entry_id), and its expiry
Check(t) ==
  /\ requests.thread[t].pc = "check"
  /\ IF HasEntry(cache_entries, requests.thread[t].entry_id)
     THEN IF requests.thread[t].now <= EntryOf(cache_entries, requests.thread[t].entry_id).expires_at
          THEN Step(t, Store, [requests.thread[t] EXCEPT !.pc = "touch"], Miss)
          ELSE Step(t, ExpireEntry(Store, requests.thread[t].entry_id),
                    [requests.thread[t] EXCEPT
                       !.pc = IF requests.thread[t].phase = "exact" THEN "intent" ELSE "idle"],
                    Miss)
     ELSE Step(t, Store,
               [requests.thread[t] EXCEPT
                  !.pc = IF requests.thread[t].phase = "exact" THEN "intent" ELSE "idle"],
               Miss)

\* cache.py:65-72 in the exact phase, where the hit is returned, and 94 in
\* the intent phase: the entry found live is made the most recent
Touch(t) ==
  /\ requests.thread[t].pc = "touch"
  /\ IF ~HasEntry(cache_entries, requests.thread[t].entry_id)
     THEN Step(t, mru_update(Store, requests.thread[t].entry_id), requests.thread[t], Miss)
     ELSE IF requests.thread[t].phase = "exact"
     THEN Step(t, mru_update(Store, requests.thread[t].entry_id),
               [requests.thread[t] EXCEPT !.pc = "idle"],
               Decision("exact", requests.thread[t].entry_id,
                        EntryOf(cache_entries, requests.thread[t].entry_id).expires_at
                          - requests.thread[t].now, 100))
     ELSE Step(t, mru_update(Store, requests.thread[t].entry_id),
               [requests.thread[t] EXCEPT !.pc = "attach"], Miss)

\* cache.py:95-102: the prompt is attached to the entry and the intent hit
\* is returned
Attach(t) ==
  /\ requests.thread[t].pc = "attach"
  /\ IF ~HasEntry(cache_entries, requests.thread[t].entry_id)
     THEN Step(t, associate_prompt_to_entry(Store, clean_memo[requests.thread[t].raw],
                                            requests.thread[t].entry_id),
               requests.thread[t], Miss)
     ELSE Step(t, associate_prompt_to_entry(Store, clean_memo[requests.thread[t].raw],
                                            requests.thread[t].entry_id),
               [requests.thread[t] EXCEPT !.pc = "idle"],
               Decision("intent", requests.thread[t].entry_id,
                        EntryOf(cache_entries, requests.thread[t].entry_id).expires_at
                          - requests.thread[t].now, 70))

\* cache.py:86-90: the guardrail, the intent key and the entry it names
IntentLookup(t) ==
  /\ requests.thread[t].pc = "intent"
  /\ IF /\ should_try_intent_memo[clean_memo[requests.thread[t].raw]]
        /\ extract_intent_memo[clean_memo[requests.thread[t].raw]] # NoIntent
        /\ Get(intent_to_entry_id,
               IntentKey(extract_intent_memo[clean_memo[requests.thread[t].raw]])) # None
     THEN Step(t, Store,
               [requests.thread[t] EXCEPT
                  !.pc = "check", !.phase = "intent",
                  !.entry_id = Get(intent_to_entry_id,
                                   IntentKey(extract_intent_memo[clean_memo[requests.thread[t].raw]]))],
               Miss)
     ELSE Step(t, Store, [requests.thread[t] EXCEPT !.pc = "idle"], Miss)

\* cache.py:172-184: the entry the prompt pointed to is rewritten
Refresh(t) ==
  /\ requests.thread[t].pc = "refresh"
  /\ Step(t, RefreshEntry(Store, requests.thread[t].entry_id, generate_response(requests.thread[t].raw),
                          requests.thread[t].ttl, now),
          [requests.thread[t] EXCEPT !.pc = "idle"], Miss)

\* cache.py:187: entry_id = create_entry(response, ttl_seconds)
Create(t) ==
  /\ requests.thread[t].pc = "create"
  /\ \E new_id \in EntryIds \ requests.issued :
       StepWith(t, create_entry(Store, new_id, generate_response(requests.thread[t].raw),
                                requests.thread[t].ttl, now),
                [requests.thread[t] EXCEPT !.pc = "associate", !.entry_id = new_id],
                Miss, {new_id})

\* cache.py:188-197: associate_prompt_to_entry(prompt, entry_id)
Associate(t) ==
  /\ requests.thread[t].pc = "associate"
  /\ Step(t, Emit(associate_prompt_to_entry(Store, clean_memo[requests.thread[t].raw],
                                            requests.thread[t].entry_id),
                  "CACHE_WRITE", requests.thread[t].entry_id, ""),
          [requests.thread[t] EXCEPT !.pc = "register"], Miss)

\* cache.py:199-202: register intent if it exists
Register(t) ==
  /\ requests.thread[t].pc = "register"
  /\ Step(t, RegisterIntent(Store, clean_memo[requests.thread[t].raw], requests.thread[t].entry_id),
          [requests.thread[t] EXCEPT !.pc = "capacity"], Miss)

\* cache.py:205-206: the size is compared and the oldest entry is picked;
\* entry_id stands for oldest_entry_id from here on
Capacity(t) ==
  /\ requests.thread[t].pc = "capacity"
  /\ IF Len(cache_entries) > MAX_CACHE_SIZE
     THEN Step(t, Store,
               [requests.thread[t] EXCEPT !.pc = "evict", !.entry_id = cache_entries[1].id], Miss)
     ELSE Step(t, Store, [requests.thread[t] EXCEPT !.pc = "idle"], Miss)

\* cache.py:207-214: evict_entry(oldest_entry_id)
Evict(t) ==
  /\ requests.thread[t].pc = "evict"
  /\ Step(t, evict_entry(Emit(Store, "CACHE_EVICT", requests.thread[t].entry_id, "capacity"),
                         requests.thread[t].entry_id),
          [requests.thread[t] EXCEPT !.pc = "idle"], Miss)

\* the smallest capacity: the second entry is over it
InitConc == Init /\ MAX_CACHE_SIZE = 1

\* two threads take up to MaxRequests requests between them, and are
\* switched between any two steps, while time passes
NextConc ==
  \/ Tick
  \/ \E t \in Threads :
    \/ StartRequest(t)
    \/ Lookup(t)
    \/ Check(t)
    \/ Touch(t)
    \/ Attach(t)
    \/ IntentLookup(t)
    \/ Refresh(t)
    \/ Create(t)
    \/ Associate(t)
    \/ Register(t)
    \/ Capacity(t)
    \/ Evict(t)

SpecConc == InitConc /\ [][NextConc]_vars

----------------------------------------------------------------------------
(* The pure functions, called on their own *)

\* before the call: the store of Init, and the argument in last.raw
Given(args) ==
  /\ MAX_CACHE_SIZE = MaxCapacity
  /\ cache_entries = <<>>
  /\ prompt_to_entry_id = <<>>
  /\ entry_id_to_prompts = <<>>
  /\ intent_to_entry_id = <<>>
  /\ entry_id_to_intents = <<>>
  /\ now = 0
  /\ last \in {[NoCall EXCEPT !.raw = a] : a \in args}
  /\ recency = <<>>
  /\ via_intent = {}
  /\ failed = FALSE
  /\ requests = NoRequests

\* a call that touches no global
Pure(call) ==
  /\ last' = call
  /\ UNCHANGED <<MAX_CACHE_SIZE, cache_entries, prompt_to_entry_id, entry_id_to_prompts,
                 intent_to_entry_id, entry_id_to_intents, now, recency, via_intent,
                 failed, requests>>

\* letters of both cases, the whitespace and a format character
CleanAlphabet == {"a", "B", " ", "TAB", "NL", "NBSP", "ZWSP"}

CleanInputs == UNION {[1..n -> CleanAlphabet] : n \in 0..MaxLen}

\* clean(s), and clean of what it returned
Clean ==
  /\ last.op = "none"
  /\ Pure([last EXCEPT !.op = "clean", !.prompt = clean(last.raw)])

CleanAgain ==
  /\ last.op = "clean"
  /\ Pure([last EXCEPT !.op = "clean clean", !.value = clean(last.prompt)])

NextClean == Clean \/ CleanAgain

SpecClean == Given(CleanInputs) /\ [][NextClean]_vars

\* the words of the compared phrases: two names and two connectors
PairWords == {<<"t","c","p">>, <<"u","d","p">>, <<"a","n","d">>, <<"v","s">>}

Phrases == {JoinSp(ws) : ws \in UNION {[1..n -> PairWords] : n \in 1..MaxWords}}

\* the phrasings the comparison rule accepts: keyword, connector, order
Phrasings == [kw : 1..Len(DifferenceKw), conn : 1..Len(PairConnectors), swap : BOOLEAN]

Phrasing(f, pair) ==
  DifferenceKw[f.kw] \o SP \o (IF f.swap THEN pair[2] ELSE pair[1]) \o SP
    \o PairConnectors[f.conn] \o SP \o (IF f.swap THEN pair[1] ELSE pair[2])

\* extract_intent on two phrasings of the comparison of last.raw[1] with
\* last.raw[2]
ExtractPair ==
  /\ last.op = "none"
  /\ \E f \in Phrasings, g \in Phrasings :
       Pure([last EXCEPT !.op = "extract_intent",
                         !.prompt = <<Phrasing(f, last.raw), Phrasing(g, last.raw)>>,
                         !.value = <<extract_intent(Phrasing(f, last.raw)),
                                     extract_intent(Phrasing(g, last.raw))>>])

SpecPairs == Given(Phrases \X Phrases) /\ [][ExtractPair]_vars

\* HitType's values, every confidence in hundredths, and the ttl_remaining
\* around the threshold 10 and one far above it
RiskInputs == {"exact", "intent", "semantic", "miss"} \X (0..100) \X ((0..12) \cup {3600})

\* classify_risk(hit_type, confidence, ttl_remaining) on last.raw
ClassifyRisk ==
  /\ last.op = "none"
  /\ Pure([last EXCEPT !.op = "classify_risk",
                       !.value = classify_risk(last.raw[1], last.raw[2], last.raw[3])])

SpecRisk == Given(RiskInputs) /\ [][ClassifyRisk]_vars

\* the labels of INTENT_PATTERNS (ToolRecommendation has no base confidence)
\* and a label of no rule
ConfidenceLabels == {INTENT_PATTERNS[i].intent : i \in 1..Len(INTENT_PATTERNS)} \cup {"Other"}

\* the generic subjects, subjects of one to five words, and a subject that
\* holds a generic word
ConfidenceSubjects ==
  GenericSubjects
    \cup {[i \in 1..(2 * n - 1) |-> IF i % 2 = 1 THEN "a" ELSE " "] : n \in 1..5}
    \cup {<<"i","t"," ","a">>}

\* len(pattern) of every pattern, and the lengths around the two thresholds
ConfidenceLengths ==
  {INTENT_PATTERNS[i].len : i \in 1..Len(INTENT_PATTERNS)} \cup {40, 41, 70, 71}

ConfidenceInputs == ConfidenceLabels \X ConfidenceSubjects \X ConfidenceLengths \X BOOLEAN

\* compute_confidence(intent, subject, pattern, noise_removed) on last.raw
ComputeConfidence ==
  /\ last.op = "none"
  /\ Pure([last EXCEPT !.op = "compute_confidence",
                       !.value = compute_confidence(last.raw[1], last.raw[2], last.raw[3],
                                                    last.raw[4])])

SpecConfidence == Given(ConfidenceInputs) /\ [][ComputeConfidence]_vars

\* prompts of the two later rules in every form their patterns accept, and
\* prompts of the rules before them
S_java == <<"j","a","v","a">>

S_about_time == S_about \o <<"t","i","m","e">>

CreativePrompts ==
  {CreativeVerbs[v] \o SP \o (IF a THEN S_a ELSE <<>>) \o CreativeNouns[n]
       \o (IF c THEN S_about_time ELSE <<>>) :
     v \in 1..Len(CreativeVerbs), a \in BOOLEAN, n \in 1..Len(CreativeNouns), c \in BOOLEAN}

DebugPrompts ==
  {DebugKw[k] \o (IF c THEN S_in \o S_java ELSE <<>>) : k \in 1..Len(DebugKw), c \in BOOLEAN}

EarlierPrompts ==
  {TroubleKw[k] \o SP \o S_java : k \in 1..Len(TroubleKw)}
    \cup {S_java \o SP \o TroubleKw[k] : k \in 1..Len(TroubleKw)}
    \cup {WriteCodeKw[k] \o SP \o S_java : k \in 1..Len(WriteCodeKw)}
    \cup {P_hello}

RulePrompts == CreativePrompts \cup DebugPrompts \cup EarlierPrompts

\* extract_intent(prompt) on last.raw
ExtractIntent ==
  /\ last.op = "none"
  /\ Pure([last EXCEPT !.op = "extract_intent",
                       !.prompt = last.raw,
                       !.value = extract_intent(last.raw)])

SpecRules == Given(RulePrompts) /\ [][ExtractIntent]_vars

\* two comparisons, each of a pair of phrases of one or two words that are
\* no connectors, each in any phrasing the comparison rule accepts
KeyWords == {<<"a">>, <<"b">>, <<"c">>}

KeyPhrases == {JoinSp(ws) : ws \in UNION {[1..n -> KeyWords] : n \in 1..MaxWords}}

KeyPairs == KeyPhrases \X KeyPhrases

\* extract_intent on a phrasing of the comparison last.raw[1] and on the
\* same phrasing of the comparison last.raw[2]; the pairs come in both orders
ExtractTwo ==
  /\ last.op = "none"
  /\ \E f \in {g \in Phrasings : ~g.swap} :
       Pure([last EXCEPT !.op = "extract_intent",
                         !.prompt = <<Phrasing(f, last.raw[1]), Phrasing(f, last.raw[2])>>,
                         !.value = <<extract_intent(Phrasing(f, last.raw[1])),
                                     extract_intent(Phrasing(f, last.raw[2]))>>])

SpecKeys == Given(KeyPairs \X KeyPairs) /\ [][ExtractTwo]_vars

----------------------------------------------------------------------------
(* What the claims speak of *)

IsLookup(call) == call.op \in {"decide", "get"}

Returned(call) == call.op # "none" /\ call.raised = ""

IsHit(call) == IsLookup(call) /\ Returned(call) /\ call.decision.hit_type \in {"exact", "intent"}

\* the ids a call's events of one type name
EventIds(call, event_type, info) ==
  {call.events[i].entry_id : i \in {j \in 1..Len(call.events) :
      call.events[j].event = event_type /\ call.events[j].info = info}}

Stored(entry_id) == HasEntry(cache_entries, entry_id)

LiveAt(entry_id, t) == Stored(entry_id) /\ t <= EntryOf(cache_entries, entry_id).expires_at

\* the intent-index key of a clean prompt, where the guardrail and the
\* extractor yield one
HasIntentKey(prompt) == should_try_intent_memo[prompt] /\ extract_intent_memo[prompt] # NoIntent

KeyOf(prompt) == IntentKey(extract_intent_memo[prompt])

IntentKeys == {KeyOf(p) : p \in {q \in CleanPrompts : HasIntentKey(q)}}

\* a step of Next that is a call: the clock stands still and last' is the call
Called == now' = now /\ vars' # vars

----------------------------------------------------------------------------
(* Sanity of the model *)

\* every prompt (intent key) of a reverse set is in the forward index, so the
\* dict.pop(key) calls of evict_entry never raise
PopNeverFails ==
  /\ \A e \in DOMAIN entry_id_to_prompts : entry_id_to_prompts[e] \subseteq DOMAIN prompt_to_entry_id
  /\ \A e \in DOMAIN entry_id_to_intents : entry_id_to_intents[e] \subseteq DOMAIN intent_to_entry_id

\* the recency history lists the stored entries
RecencyListsStored ==
  ~failed => {recency[i] : i \in 1..Len(recency)} = StoredIds(cache_entries)

----------------------------------------------------------------------------
(* C1 *)

PromptDuality ==
  \A e \in StoredIds(cache_entries), p \in CleanPrompts :
    (Get(prompt_to_entry_id, p) = e)
      <=> (e \in DOMAIN entry_id_to_prompts /\ p \in entry_id_to_prompts[e])

IntentDuality ==
  \A e \in StoredIds(cache_entries), k \in IntentKeys :
    (Get(intent_to_entry_id, k) = e)
      <=> (e \in DOMAIN entry_id_to_intents /\ k \in entry_id_to_intents[e])

\* C1: index duality.  After any sequence of calls that all ran to completion,
\* for every stored entry e a prompt p maps to e in prompt_to_entry_id exactly
\* if p is in entry_id_to_prompts[e], and likewise for every intent key.
C1_IndexDuality == ~failed => (PromptDuality /\ IntentDuality)

----------------------------------------------------------------------------
(* C2 *)

\* C2: capacity invariant.  From the empty store, after every completed
\* set_in_cache call the number of stored entries is at most MAX_CACHE_SIZE.
C2_CapacityInvariant ==
  (last.op = "set" /\ Returned(last)) => Len(cache_entries) <= MAX_CACHE_SIZE

----------------------------------------------------------------------------
(* C3 *)

\* C3: LRU victim.  When a set_in_cache call creates an entry and the count
\* then exceeds MAX_CACHE_SIZE, exactly the entry whose latest recency event
\* (creation, refresh, hit) is the oldest leaves the store: every other entry,
\* the created one included, remains.
C3_LRUVictim ==
  [][ \A c \in EntryIds :
        ( /\ Called /\ last'.op = "set" /\ Returned(last')
          /\ c \in EventIds(last', "CACHE_WRITE", "")
          /\ Cardinality(StoredIds(cache_entries) \cup {c}) > MAX_CACHE_SIZE )
        => StoredIds(cache_entries')
             = (StoredIds(cache_entries) \cup {c}) \ {Head(MoveToEnd(recency, c))} ]_vars

----------------------------------------------------------------------------
(* C4 *)

\* C4: hits come from live entries.  Whenever a lookup returns EXACT or
\* INTENT, the entry it names is stored and was live at the time of the call
\* (now <= expires_at, the boundary included), and ttl_remaining is
\* expires_at - now, which is not negative.
C4_HitsAreLive ==
  IsHit(last) =>
    /\ Stored(last.decision.entry_id)
    /\ LiveAt(last.decision.entry_id, last.t)
    /\ last.decision.ttl_remaining
         = EntryOf(cache_entries, last.decision.entry_id).expires_at - last.t
    /\ last.decision.ttl_remaining >= 0

\* a hit at the boundary now = expires_at, and a hit before it
C4_Witness ==
  /\ IsHit(last)
  /\ last.decision.ttl_remaining = 0
  /\ last.t = EntryOf(cache_entries, last.decision.entry_id).expires_at

----------------------------------------------------------------------------
(* C5 *)

\* no prompt and no intent key maps to entry_id, in the forward indices or in
\* the reverse maps, and the entry is not stored
Purged(entry_id) ==
  /\ ~Stored(entry_id)
  /\ \A p \in DOMAIN prompt_to_entry_id : prompt_to_entry_id[p] # entry_id
  /\ \A k \in DOMAIN intent_to_entry_id : intent_to_entry_id[k] # entry_id
  /\ entry_id \notin DOMAIN entry_id_to_prompts
  /\ entry_id \notin DOMAIN entry_id_to_intents

\* C5: lazy expiry purge.  When a lookup reaches an entry e after its expiry
\* (it reports CACHE_EXPIRE for e), the call returns no hit on e, and on
\* return e is gone from the entry map and from all four indices.
C5_LazyExpiryPurge ==
  (IsLookup(last) /\ Returned(last)) =>
    \A e \in EventIds(last, "CACHE_EXPIRE", "") :
      /\ ~(IsHit(last) /\ last.decision.entry_id = e)
      /\ Purged(e)

----------------------------------------------------------------------------
(* C6 *)

\* C6: exact match takes precedence.  If the clean prompt maps in the prompt
\* index to a live entry e, the lookup returns EXACT on e with confidence
\* 1.0, whatever the intent index holds, and changes neither the prompt index
\* nor the intent index.
C6_ExactPrecedence ==
  [][ \A p \in CleanPrompts :
        ( /\ Called /\ IsLookup(last') /\ last'.prompt = p
          /\ Get(prompt_to_entry_id, p) # None
          /\ LiveAt(Get(prompt_to_entry_id, p), now) )
        => /\ Returned(last')
           /\ last'.decision.hit_type = "exact"
           /\ last'.decision.entry_id = prompt_to_entry_id[p]
           /\ last'.decision.confidence = 100
           /\ prompt_to_entry_id' = prompt_to_entry_id
           /\ intent_to_entry_id' = intent_to_entry_id ]_vars

\* an EXACT hit on one entry while the prompt's intent key maps to another
\* live entry
C6_Witness ==
  /\ IsHit(last) /\ last.decision.hit_type = "exact"
  /\ HasIntentKey(last.prompt)
  /\ Get(intent_to_entry_id, KeyOf(last.prompt)) \notin {None, last.decision.entry_id}
  /\ LiveAt(Get(intent_to_entry_id, KeyOf(last.prompt)), last.t)

----------------------------------------------------------------------------
(* C7 *)

\* the stored prompts that share the intent key of p2 and were written, not
\* attached by an intent hit
WrittenWithKeyOf(p2) ==
  {p1 \in DOMAIN prompt_to_entry_id \ via_intent :
     p1 # p2 /\ HasIntentKey(p1) /\ KeyOf(p1) = KeyOf(p2)}

\* C7 as stated: p1 and p2 pass the guardrail and yield the same intent key;
\* set_in_cache(p1) created e; while e is live and p2 has no exact mapping, a
\* lookup of p2 returns INTENT on e.
C7_Original ==
  [][ \A p2 \in CleanPrompts : \A p1 \in WrittenWithKeyOf(p2) :
        ( /\ Called /\ IsLookup(last') /\ last'.prompt = p2
          /\ HasIntentKey(p2)
          /\ p2 \notin DOMAIN prompt_to_entry_id
          /\ LiveAt(prompt_to_entry_id[p1], now) )
        => /\ Returned(last')
           /\ last'.decision.hit_type = "intent"
           /\ last'.decision.entry_id = prompt_to_entry_id[p1] ]_vars

\* C7: intent sharing, while the intent key still maps to e.  If p2 passes
\* the guardrail, has no exact mapping, and its intent key maps to a live
\* entry e (as it does once set_in_cache(p1, r, ttl) created e for a p1 with
\* the same key, until a later write re-points the key or an eviction drops
\* it), decide_cache(p2) returns INTENT on e and get_from_cache(p2) returns
\* the response e holds.
C7_IntentSharing ==
  [][ \A p2 \in CleanPrompts :
        ( /\ Called /\ IsLookup(last') /\ last'.prompt = p2
          /\ HasIntentKey(p2)
          /\ p2 \notin DOMAIN prompt_to_entry_id
          /\ Get(intent_to_entry_id, KeyOf(p2)) # None
          /\ LiveAt(Get(intent_to_entry_id, KeyOf(p2)), now) )
        => /\ Returned(last')
           /\ last'.decision.hit_type = "intent"
           /\ last'.decision.entry_id = intent_to_entry_id[KeyOf(p2)]
           /\ last'.op = "get" =>
                last'.value = EntryOf(cache_entries, intent_to_entry_id[KeyOf(p2)]).response ]_vars

\* get_from_cache("Define  AI") returned, as an intent hit, the answer
\* written for "what is ai"
C7_Witness ==
  /\ last.op = "get" /\ IsHit(last) /\ last.decision.hit_type = "intent"
  /\ last.prompt = clean_memo[P_Define_AI]
  /\ last.value = generate_response(P_what_is_ai)
  /\ Get(prompt_to_entry_id, clean_memo[P_what_is_ai]) = last.decision.entry_id

----------------------------------------------------------------------------
(* C8 *)

\* C8: every INTENT hit carries the confidence the extractor computed for the
\* prompt looked up.
C8_IntentConfidence ==
  (IsHit(last) /\ last.decision.hit_type = "intent")
    => last.decision.confidence = extract_intent_memo[last.prompt].confidence

----------------------------------------------------------------------------
(* C9 *)

\* C9: short-circuit after an intent hit.  When a lookup of p returns INTENT
\* on e, on return p maps to e in the prompt index and is in e's reverse set;
\* and a later lookup of p, made while that mapping stands and e is stored
\* and live, returns EXACT on e with confidence 1.0.
C9_ShortCircuit ==
  [][ /\ (Called /\ IsHit(last') /\ last'.decision.hit_type = "intent")
         => /\ Get(prompt_to_entry_id', last'.prompt) = last'.decision.entry_id
            /\ last'.decision.entry_id \in DOMAIN entry_id_to_prompts'
            /\ last'.prompt \in entry_id_to_prompts'[last'.decision.entry_id]
      /\ \A p \in via_intent :
           ( /\ Called /\ IsLookup(last') /\ last'.prompt = p
             /\ LiveAt(prompt_to_entry_id[p], now) )
           => /\ Returned(last')
              /\ last'.decision.hit_type = "exact"
              /\ last'.decision.entry_id = prompt_to_entry_id[p]
              /\ last'.decision.confidence = 100 ]_vars

\* an EXACT hit for a prompt that an intent hit attached to the entry
C9_Witness ==
  /\ IsHit(last) /\ last.decision.hit_type = "exact"
  /\ last.prompt \in via_intent
  /\ prompt_to_entry_id[last.prompt] = last.decision.entry_id

----------------------------------------------------------------------------
(* C10 *)

\* C10: no coincidental reuse.  A lookup of q returns a hit on e only if,
\* before the call, q mapped to e in the prompt index, or q passes the
\* guardrail and its intent key mapped to e; otherwise it returns MISS with
\* no entry, confidence 0.0 and ttl_remaining 0.0.
C10_NoCoincidentalReuse ==
  [][ (Called /\ IsLookup(last') /\ Returned(last'))
        => IF last'.decision.hit_type \in {"exact", "intent"}
           THEN \/ Get(prompt_to_entry_id, last'.prompt) = last'.decision.entry_id
                \/ /\ HasIntentKey(last'.prompt)
                   /\ Get(intent_to_entry_id, KeyOf(last'.prompt)) = last'.decision.entry_id
           ELSE last'.decision = Miss ]_vars

\* "hello" is stored and live, and the lookup of "hello?" is a MISS
C10_Witness ==
  /\ IsLookup(last) /\ Returned(last)
  /\ last.prompt = clean_memo[P_hello_q]
  /\ last.decision = Miss
  /\ Get(prompt_to_entry_id, clean_memo[P_hello]) # None
  /\ LiveAt(Get(prompt_to_entry_id, clean_memo[P_hello]), last.t)

----------------------------------------------------------------------------
(* C11 *)

\* C11: case/whitespace equivalence.  For two typings s1, s2 of one prompt
\* (they differ in letter case, in leading, trailing or repeated whitespace,
\* or in format characters only): while the entry e that a write of s1 left
\* in the prompt index is live, a lookup of s2 is an EXACT hit on e, and
\* set_in_cache(s2, r, ttl) refreshes e (response r, expiry now + ttl) and
\* creates no entry: the entry count and the prompt index stay as they were.
C11_CaseWhitespaceEquivalence ==
  [][ \A class \in {HelloVariants, AiVariants} : \A s1 \in class, s2 \in class :
        ( /\ Called /\ last'.raw = s2
          /\ Get(prompt_to_entry_id, clean_memo[s1]) # None
          /\ LiveAt(Get(prompt_to_entry_id, clean_memo[s1]), now) )
        => /\ Returned(last')
           /\ IsLookup(last') =>
                /\ last'.decision.hit_type = "exact"
                /\ last'.decision.entry_id = prompt_to_entry_id[clean_memo[s1]]
           /\ last'.op = "set" =>
                /\ EventIds(last', "CACHE_WRITE", "update") = {prompt_to_entry_id[clean_memo[s1]]}
                /\ EventIds(last', "CACHE_WRITE", "") = {}
                /\ StoredIds(cache_entries') = StoredIds(cache_entries)
                /\ Len(cache_entries') = Len(cache_entries)
                /\ prompt_to_entry_id' = prompt_to_entry_id
                /\ EntryOf(cache_entries', prompt_to_entry_id[clean_memo[s1]]).response
                     = last'.response
                /\ EntryOf(cache_entries', prompt_to_entry_id[clean_memo[s1]]).expires_at - now \in TTLs ]_vars

\* get_from_cache(" HELLO ") returned the answer written for "hello", and
\* the store holds one entry
C11_Witness ==
  /\ last.op = "get" /\ IsHit(last) /\ last.decision.hit_type = "exact"
  /\ last.raw = P_HELLO_padded
  /\ last.value = generate_response(P_hello)
  /\ Len(cache_entries) = 1

----------------------------------------------------------------------------
(* C12 *)

\* s has no leading, no trailing and no doubled space
NoStraySpace(s) ==
  /\ s # <<>> => (s[1] # " " /\ s[Len(s)] # " ")
  /\ \A i \in 1..(Len(s) - 1) : ~(s[i] = " " /\ s[i + 1] = " ")

\* C12: normalization is idempotent.  For every string s over letters of
\* both cases, spaces, tabs, newlines, no-break spaces and format characters,
\* clean(clean(s)) = clean(s), and clean(s) has no leading, trailing or
\* doubled space.
C12_CleanIdempotent ==
  /\ last.op \in {"clean", "clean clean"} => NoStraySpace(last.prompt)
  /\ last.op = "clean clean" => last.value = last.prompt

\* clean applied twice to a string it changes: capitals, a format character
\* inside a word, padding and a run of whitespace between two words
C12_Witness ==
  /\ last.op = "clean clean"
  /\ last.raw = <<"TAB", "B", "ZWSP", " ">> \/ last.raw = <<"a", " ", "NL", "B">>
  /\ last.prompt # last.raw
  /\ last.value = last.prompt

----------------------------------------------------------------------------
(* C13 *)

\* the two phrasings got the comparison label and one intent key
SameComparison(results) ==
  /\ results[1] # NoIntent /\ results[2] # NoIntent
  /\ results[1].intent = "DifferenceBetween"
  /\ results[1].intent = results[2].intent
  /\ results[1].subject = results[2].subject
  /\ IntentKey(results[1]) = IntentKey(results[2])

\* no word of the phrase is a connector
ConnectorFree(phrase) ==
  \A i \in 1..Len(Split(phrase)) :
    \A c \in 1..Len(PairConnectors) : Split(phrase)[i] # PairConnectors[c]

\* C13 as stated: for any two phrases a and b, all phrasings the comparison
\* rule accepts yield the same intent label and subject, whatever the order.
C13_Original ==
  last.op = "extract_intent" => SameComparison(last.value)

\* C13: symmetric canonicalization, for phrases without a connector word.
\* If no word of a or of b is "and", "vs" or "versus", every phrasing
\* ("difference between" or "compare", any connector, either order) yields
\* the label DifferenceBetween and the same subject, hence the same key.
C13_SymmetricPair ==
  (last.op = "extract_intent" /\ ConnectorFree(last.raw[1]) /\ ConnectorFree(last.raw[2]))
    => SameComparison(last.value)

\* "difference between tcp udp and udp" and "compare udp vs tcp udp" have
\* one key
C13_Witness ==
  /\ last.op = "extract_intent"
  /\ last.raw = <<JoinSp(<< <<"t","c","p">>, <<"u","d","p">> >>), <<"u","d","p">> >>
  /\ last.prompt[1] = Phrasing([kw |-> 1, conn |-> 1, swap |-> FALSE], last.raw)
  /\ last.prompt[2] = Phrasing([kw |-> 2, conn |-> 2, swap |-> TRUE], last.raw)
  /\ SameComparison(last.value)
  /\ last.value[1].subject = JoinSp(<<last.raw[1], last.raw[2]>>)

----------------------------------------------------------------------------
(* C14 *)

\* C14: risk classification.  classify_risk returns "none" for an exact
\* hit; otherwise "high" if confidence < 0.6, whatever the ttl; otherwise
\* "medium" if ttl_remaining < 10; otherwise "low".
C14_RiskClassification ==
  last.op = "classify_risk" =>
    /\ last.raw[1] = "exact" => last.value = "none"
    /\ (last.raw[1] # "exact" /\ last.raw[2] < 60) => last.value = "high"
    /\ (last.raw[1] # "exact" /\ last.raw[2] >= 60 /\ last.raw[3] < 10) => last.value = "medium"
    /\ (last.raw[1] # "exact" /\ last.raw[2] >= 60 /\ last.raw[3] >= 10) => last.value = "low"

\* confidence 0.55 with ttl_remaining 5 is "high", not "medium"
C14_Witness ==
  /\ last.op = "classify_risk"
  /\ last.raw = <<"intent", 55, 5>>
  /\ last.value = "high"

----------------------------------------------------------------------------
(* C15 *)

\* the clean prompt is longer than 80 characters, or holds a digit or a
\* newline
Rejected(prompt) ==
  \/ Len(prompt) > 80
  \/ \E i \in 1..Len(prompt) : prompt[i] \in Digits \cup {"NL"}

\* C15: the guardrail.  For a prompt whose normalized form is longer than 80
\* characters or holds a digit or a newline, a lookup never returns an INTENT
\* hit, and set_in_cache adds no key to the intent index and re-points none,
\* even when the text matches an intent rule.
C15_Guardrail ==
  [][ \A p \in {q \in CleanPrompts : Rejected(q)} :
        (Called /\ last'.prompt = p)
        => /\ IsLookup(last') => (Returned(last') /\ last'.decision.hit_type # "intent")
           /\ last'.op = "set" =>
                \A k \in DOMAIN intent_to_entry_id' :
                  /\ k \in DOMAIN intent_to_entry_id
                  /\ intent_to_entry_id'[k] = intent_to_entry_id[k] ]_vars

\* the lookup of the 82-character prompt is a MISS although a rule matches it
\* and the intent key it would have maps to a live entry, written for the
\* 80-character phrasing
C15_Witness ==
  /\ IsLookup(last) /\ Returned(last)
  /\ last.raw = P_steps_to_long
  /\ last.decision = Miss
  /\ extract_intent_memo[last.prompt] # NoIntent
  /\ KeyOf(last.prompt) = KeyOf(clean_memo[P_how_to_long])
  /\ Get(intent_to_entry_id, KeyOf(last.prompt)) # None
  /\ LiveAt(Get(intent_to_entry_id, KeyOf(last.prompt)), last.t)

----------------------------------------------------------------------------
(* C16 *)

\* C16: no thrown errors in sequential use.  From the empty store, after any
\* sequence of completed calls with the clock advancing between them, every
\* further decide_cache, get_from_cache or set_in_cache call returns: none
\* raises.
C16_NoThrownErrors == last.raised = ""

----------------------------------------------------------------------------
(* C17 *)

\* every thread is between two requests
AllFinished == \A t \in Threads : requests.thread[t].pc = "idle"

\* every prompt and intent key of the forward indexes maps to a stored entry
NoDanglingPointers ==
  /\ \A p \in DOMAIN prompt_to_entry_id : Stored(prompt_to_entry_id[p])
  /\ \A k \in DOMAIN intent_to_entry_id : Stored(intent_to_entry_id[k])

\* C17: index invariants under concurrency.  When requests (decide_cache and
\* set_in_cache, in any mix) run at the same time, then whenever all of them
\* have finished index duality holds and no forward index maps a prompt or an
\* intent key to an entry that is not stored.
C17_IndexInvariantsUnderConcurrency ==
  AllFinished => (PromptDuality /\ IntentDuality /\ NoDanglingPointers)

----------------------------------------------------------------------------
(* C18 *)

\* C18: capacity under concurrent writes.  When set_in_cache calls run at the
\* same time, once all requests have completed, none having raised, the
\* number of stored entries is at most MAX_CACHE_SIZE.
C18_CapacityUnderConcurrentWrites ==
  (AllFinished /\ ~failed) => Len(cache_entries) <= MAX_CACHE_SIZE

----------------------------------------------------------------------------
(* C19 *)

\* the thread t ends its request with a step that touches, attaches to or
\* rewrites the entry it looked up
Mutates(t) ==
  /\ requests.thread[t].pc \in {"touch", "attach", "refresh"}
  /\ requests'.thread[t].pc = "idle"

\* C19: no failure under concurrent requests.  A decide_cache or set_in_cache
\* call that runs while another request evicts the entry it has looked up
\* still returns: its touch or refresh of the entry does not raise, and it
\* leaves no prompt or intent key mapped to an entry that is not stored.
C19_NoFailureUnderConcurrency ==
  [][\A t \in Threads :
       Mutates(t) => /\ last'.raised = ""
                     /\ NoDanglingPointers => NoDanglingPointers']_vars

----------------------------------------------------------------------------
(* C20 *)

\* the forward index with every key that maps to entry_id removed
NotTo(index, entry_id) == Del(index, {k \in DOMAIN index : index[k] = entry_id})

\* C20: eviction cascades and is idempotent.  evict_entry(e) does not fail;
\* it removes e from the entry map, removes every prompt and every intent
\* key that pointed to e from the forward index and e's sets from the
\* reverse maps, and leaves every other entry and association as it was; on
\* an id that is not stored it changes nothing.
C20_EvictCascades ==
  [][ \A e \in EntryIds :
        (Called /\ last'.op = "evict" /\ last'.decision.entry_id = e)
        => /\ Returned(last')
           /\ cache_entries' = Without(cache_entries, e)
           /\ prompt_to_entry_id' = NotTo(prompt_to_entry_id, e)
           /\ intent_to_entry_id' = NotTo(intent_to_entry_id, e)
           /\ entry_id_to_prompts' = Del(entry_id_to_prompts, {e})
           /\ entry_id_to_intents' = Del(entry_id_to_intents, {e})
           /\ ~Stored(e) =>
                UNCHANGED <<cache_entries, prompt_to_entry_id, entry_id_to_prompts,
                            intent_to_entry_id, entry_id_to_intents>> ]_vars

----------------------------------------------------------------------------
(* C21 *)

\* the stored entries other than entry_id, in recency order
Others(entries, entry_id) == SelectSeq(entries, LAMBDA e : e.id # entry_id)

\* C21: write refresh.  set_in_cache(p, r, ttl) for a prompt that maps to a
\* live entry e returns; e then holds the response r and the expiry now + ttl
\* and is the most recently used entry; e keeps its id, the other entries are
\* the same in the same order (none is created, none is evicted), and the
\* prompt index, the intent index and both reverse maps are unchanged.
C21_WriteRefresh ==
  [][ \A p \in CleanPrompts :
        ( /\ Called /\ last'.op = "set" /\ last'.prompt = p
          /\ Get(prompt_to_entry_id, p) # None
          /\ LiveAt(Get(prompt_to_entry_id, p), now) )
        => /\ Returned(last')
           /\ cache_entries'[Len(cache_entries')].id = prompt_to_entry_id[p]
           /\ cache_entries'[Len(cache_entries')].response = last'.response
           /\ cache_entries'[Len(cache_entries')].expires_at - now \in TTLs
           /\ Others(cache_entries', prompt_to_entry_id[p])
                = Others(cache_entries, prompt_to_entry_id[p])
           /\ Len(cache_entries') = Len(cache_entries)
           /\ prompt_to_entry_id' = prompt_to_entry_id
           /\ intent_to_entry_id' = intent_to_entry_id
           /\ entry_id_to_prompts' = entry_id_to_prompts
           /\ entry_id_to_intents' = entry_id_to_intents ]_vars

\* a refresh at time 1 of the older of two entries, written at time 0 with
\* the answer to another prompt: it is now the newer, with a new answer and
\* a later expiry
C21_Witness ==
  /\ last.op = "set" /\ Returned(last) /\ last.t = 1
  /\ Len(cache_entries) = 2
  /\ EventIds(last, "CACHE_WRITE", "update") = {cache_entries[2].id}
  /\ cache_entries[2].response = last.response
  /\ cache_entries[2].expires_at = 2
  /\ cache_entries[1].expires_at = 1
  /\ Cardinality(entry_id_to_prompts[cache_entries[2].id]) = 2

----------------------------------------------------------------------------
(* C22 *)

\* C22: write onto an expired mapping.  set_in_cache(p, r, ttl) for a prompt
\* that maps to a stored entry e with now > e.expires_at returns, with p
\* mapped to another entry and out of e's reverse prompt set; e, if still
\* stored, holds the response and the expiry it held.
C22_WriteOntoExpired ==
  [][ \A p \in CleanPrompts :
        ( /\ Called /\ last'.op = "set" /\ last'.prompt = p
          /\ Get(prompt_to_entry_id, p) # None
          /\ Stored(Get(prompt_to_entry_id, p))
          /\ ~LiveAt(Get(prompt_to_entry_id, p), now) )
        => /\ Returned(last')
           /\ Get(prompt_to_entry_id', p) \notin {None, prompt_to_entry_id[p]}
           /\ prompt_to_entry_id[p] \in DOMAIN entry_id_to_prompts'
                => p \notin entry_id_to_prompts'[prompt_to_entry_id[p]]
           /\ HasEntry(cache_entries', prompt_to_entry_id[p])
                => EntryOf(cache_entries', prompt_to_entry_id[p])
                     = EntryOf(cache_entries, prompt_to_entry_id[p]) ]_vars

----------------------------------------------------------------------------
(* C23 *)

\* both prompts pass the guardrail, and extraction yields the same label and
\* the same subject for them
SameLabelAndSubject(p1, p2) ==
  /\ HasIntentKey(p1) /\ HasIntentKey(p2)
  /\ extract_intent_memo[p1].intent = extract_intent_memo[p2].intent
  /\ extract_intent_memo[p1].subject = extract_intent_memo[p2].subject

----------------------------------------------------------------------------
(* C24 *)

\* the number of words of a subject whose words are separated by one space
WordCount(subject) == Cardinality({i \in 1..Len(subject) : subject[i] = " "}) + 1

\* base * specificity * strength - penalty, in ten-thousandths
Score(intent, subject, pattern, noise_removed) ==
  (IF intent \in DOMAIN INTENT_BASE_CONFIDENCE THEN INTENT_BASE_CONFIDENCE[intent] ELSE 70)
    * (IF subject \in {<<"i","t">>, <<"t","h","i","s">>, <<"t","h","a","t">>,
                       <<"s","o","m","e","t","h","i","n","g">>, <<"e","r","r","o","r">>,
                       <<"i","s","s","u","e">>}
       THEN 4
       ELSE IF 6 + WordCount(subject) < 10 THEN 6 + WordCount(subject) ELSE 10)
    * (IF pattern > 70 THEN 10 ELSE IF pattern > 40 THEN 9 ELSE 8)
    - (IF noise_removed THEN 500 ELSE 0)

Clamp01(score) == IF score < 0 THEN 0 ELSE IF score > 10000 THEN 10000 ELSE score

\* C24: confidence formula.  The confidence is the clamped score
\* base[intent] * specificity(subject) * strength(pattern) - penalty rounded
\* to two decimals: a hundredth at most half a hundredth from it (where the
\* score lies midway between two hundredths, one of the two), within [0, 1].
C24_ConfidenceFormula ==
  last.op = "compute_confidence" =>
    /\ last.value \in 0..100
    /\ 100 * last.value - Clamp01(Score(last.raw[1], last.raw[2], last.raw[3], last.raw[4])) \in -50..50

\* DefineConcept, a one-word subject, a pattern of 54 characters, noise
\* removed: 0.85 * 0.7 * 0.9 - 0.05 = 0.4855, and the confidence is 0.49
C24_Witness ==
  /\ last.op = "compute_confidence"
  /\ last.raw = <<"DefineConcept", <<"a">>, 54, TRUE>>
  /\ last.value = 49

----------------------------------------------------------------------------
(* C25 *)

\* C25: no dangling pointers and equal domains.  After any sequence of
\* completed operations the ids of the entry map, the keys of
\* entry_id_to_prompts and the keys of entry_id_to_intents are the same set,
\* and every value of prompt_to_entry_id and of intent_to_entry_id is in it.
C25_EqualDomains ==
  ~failed =>
    /\ DOMAIN entry_id_to_prompts = StoredIds(cache_entries)
    /\ DOMAIN entry_id_to_intents = StoredIds(cache_entries)
    /\ \A p \in DOMAIN prompt_to_entry_id : prompt_to_entry_id[p] \in StoredIds(cache_entries)
    /\ \A k \in DOMAIN intent_to_entry_id : intent_to_entry_id[k] \in StoredIds(cache_entries)

----------------------------------------------------------------------------
(* C26 *)

\* the entries (id, response, expiry) of the entry map
Entries(entries) == {entries[i] : i \in 1..Len(entries)}

\* the entries a step removes from the entry map
Gone == Entries(cache_entries) \ Entries(cache_entries')

\* C26: entries leave the store for two reasons only.  A lookup removes only
\* entries that it reached through the prompt index or the intent index and
\* that were expired (now > expires_at), so never a live one; a write that
\* refreshes removes none; a write that creates an entry removes at most one
\* entry, the head of the recency order, and only when the creation pushed
\* the count over MAX_CACHE_SIZE; the passing of time removes none.
C26_RemovalReasons ==
  [][ /\ (Called /\ IsLookup(last'))
         => \A e \in Gone :
              /\ now > e.expires_at
              /\ \/ e.id = Get(prompt_to_entry_id, last'.prompt)
                 \/ /\ HasIntentKey(last'.prompt)
                    /\ e.id = Get(intent_to_entry_id, KeyOf(last'.prompt))
      /\ (Called /\ last'.op = "set" /\ Get(prompt_to_entry_id, last'.prompt) # None)
         => StoredIds(cache_entries') = StoredIds(cache_entries)
      /\ (Called /\ last'.op = "set" /\ Get(prompt_to_entry_id, last'.prompt) = None)
         => /\ Cardinality(Gone) <= 1
            /\ \A e \in Gone : e = cache_entries[1] /\ Len(cache_entries) + 1 > MAX_CACHE_SIZE
      /\ now' # now => cache_entries' = cache_entries ]_vars

----------------------------------------------------------------------------
(* C27 *)

\* C27: what a lookup leaves alone.  After a lookup every stored entry is an
\* entry that was stored before it, with the response and the expiry it had:
\* a lookup creates no entry and a hit does not extend the TTL.  A lookup that
\* returns MISS and met no expired entry leaves the entry map, its order, both
\* forward indices and both reverse maps unchanged.
C27_LookupFrame ==
  [][ (Called /\ IsLookup(last'))
        => /\ Entries(cache_entries') \subseteq Entries(cache_entries)
           /\ Len(cache_entries') <= Len(cache_entries)
           /\ ( /\ Returned(last') /\ last'.decision.hit_type = "miss"
                /\ EventIds(last', "CACHE_EXPIRE", "") = {} )
              => /\ cache_entries' = cache_entries
                 /\ prompt_to_entry_id' = prompt_to_entry_id
                 /\ intent_to_entry_id' = intent_to_entry_id
                 /\ entry_id_to_prompts' = entry_id_to_prompts
                 /\ entry_id_to_intents' = entry_id_to_intents ]_vars

\* an exact hit at time 1 on an entry written at time 0: its expiry is
\* still 1
C27_Witness ==
  /\ IsHit(last) /\ last.decision.hit_type = "exact" /\ last.t = 1
  /\ EntryOf(cache_entries, last.decision.entry_id).expires_at = 1
  /\ EntryOf(cache_entries, last.decision.entry_id).response = generate_response(P_hello)
  /\ Len(cache_entries) = 2

----------------------------------------------------------------------------
(* C28 *)

\* C28: fresh ids.  The id of an entry that set_in_cache creates is the id
\* of no entry stored before the call, and has no reverse prompt set and no
\* reverse intent set before the call: creating an entry overwrites no entry
\* and resets no reverse set.
C28_FreshIds ==
  [][ (Called /\ last'.op = "set")
        => \A c \in EventIds(last', "CACHE_WRITE", "") :
             /\ c \notin StoredIds(cache_entries)
             /\ c \notin DOMAIN entry_id_to_prompts
             /\ c \notin DOMAIN entry_id_to_intents ]_vars


\* C29: extract_intent returns the label of the first rule, in list order,
\* whose pattern matches the whole prompt, and no rule is shadowed by an
\* earlier more general one: a prompt that matches the CreativeGeneration
\* pattern is labelled CreativeGeneration and a prompt that matches the
\* DebugError pattern is labelled DebugError.
Text == Strip(LowerStr(last.raw))

C29_RulePriority ==
  last.op = "extract_intent" =>
    /\ \A i \in 1..Len(INTENT_PATTERNS) :
         ( /\ Match(INTENT_PATTERNS[i], Text).ok
           /\ \A j \in 1..(i - 1) : ~Match(INTENT_PATTERNS[j], Text).ok )
         => last.value.intent = INTENT_PATTERNS[i].intent
    /\ MatchCreative(CreativeVerbs, Text).ok => last.value.intent = "CreativeGeneration"
    /\ MatchDebug(DebugKw, Text).ok => last.value.intent = "DebugError"


\* C30: after reset_cache() the store behaves like a freshly started one: no
\* prompt and no intent key maps to an entry id, the set_in_cache that
\* follows the reset returns normally and creates a new entry, and the
\* get_from_cache that follows it returns None.
C30_ResetCleanSlate ==
  [][ /\ last'.op = "reset" =>
           /\ prompt_to_entry_id' = <<>>
           /\ intent_to_entry_id' = <<>>
      /\ (last.op = "reset" /\ Called /\ last'.op \in {"set", "get"}) =>
           /\ Returned(last')
           /\ last'.op = "set" => EventIds(last', "CACHE_WRITE", "") # {}
           /\ last'.op = "get" => last'.value = NoResponse ]_vars


\* C31: after any sequence of completed decide_cache / set_in_cache calls
\* from the empty store, every stored entry has a non-empty reverse prompt
\* set and at least one prompt of the prompt index maps to it.
ReachableByPrompt(entry_id) ==
  /\ entry_id \in DOMAIN entry_id_to_prompts
  /\ entry_id_to_prompts[entry_id] # {}
  /\ \E p \in DOMAIN prompt_to_entry_id : prompt_to_entry_id[p] = entry_id

C31_EveryEntryReachable ==
  ~failed => \A entry_id \in StoredIds(cache_entries) : ReachableByPrompt(entry_id)

\* two entries are stored and the intent key of a prompt of one of them was
\* re-pointed to the other
C31_Witness ==
  /\ ~failed
  /\ Len(cache_entries) = 2
  /\ \E e \in StoredIds(cache_entries) :
       /\ Get(entry_id_to_intents, e) = {}
       /\ \E p \in Get(entry_id_to_prompts, e) :
            /\ HasIntentKey(p)
            /\ Get(intent_to_entry_id, KeyOf(p)) \in StoredIds(cache_entries) \ {e}


\* C32: when decide_cache re-associates the prompt it looks up to the entry
\* found through the intent index, the prompt has no mapping in the prompt
\* index (it had none, or its expired entry was evicted earlier in the same
\* call), so the re-association only adds a mapping: the lookup returns an
\* intent hit and no entry that stays stored loses a prompt.
\* ReachesReassociation(p): the lookup of p at the current time is not an
\* exact hit and the intent index gives a live entry for p's key
ReachesReassociation(p) ==
  /\ ~(p \in DOMAIN prompt_to_entry_id /\ LiveAt(prompt_to_entry_id[p], now))
  /\ HasIntentKey(p)
  /\ Get(intent_to_entry_id, KeyOf(p)) # None
  /\ LiveAt(Get(intent_to_entry_id, KeyOf(p)), now)

C32_NoStolenPrompt ==
  [][ (Called /\ IsLookup(last') /\ ReachesReassociation(last'.prompt))
        => /\ \/ last'.prompt \notin DOMAIN prompt_to_entry_id
              \/ prompt_to_entry_id[last'.prompt] \in EventIds(last', "CACHE_EXPIRE", "")
           /\ Returned(last')
           /\ last'.decision.hit_type = "intent"
           /\ \A e \in StoredIds(cache_entries) \cap StoredIds(cache_entries') :
                Get(entry_id_to_prompts, e) \subseteq Get(entry_id_to_prompts', e) ]_vars


\* C33: with MAX_CACHE_SIZE >= 1, the lookup of p that comes next after a
\* completed set_in_cache(p, r, ttl), ttl >= 0, with the clock advanced by at
\* most ttl in between, is an exact hit, and get_from_cache(p) returns r;
\* the write's capacity enforcement does not evict the entry it wrote.
\* The entry's expires_at is the time of the write plus ttl.
WrittenIds(call) ==
  EventIds(call, "CACHE_WRITE", "") \cup EventIds(call, "CACHE_WRITE", "update")

WithinTTL(call) ==
  \A c \in WrittenIds(call) : Stored(c) => now <= EntryOf(cache_entries, c).expires_at

SameKey(results) ==
  /\ results[1] # NoIntent /\ results[2] # NoIntent
  /\ results[1].intent = "DifferenceBetween" /\ results[2].intent = "DifferenceBetween"
  /\ \/ results[1].subject = results[2].subject
     \/ IntentKey(results[1]) = IntentKey(results[2])

Unordered(pair) == {pair[1], pair[2]}

C34_KeysIdentifyPairs ==
  (last.op = "extract_intent" /\ SameKey(last.value))
    => Unordered(last.raw[1]) = Unordered(last.raw[2])

====
